---- MODULE Spec2Model ----
(***************************************************************************)
(* A model of billfrog's receipt scheduler (scheduler/task_scheduler.py),  *)
(* its configuration store (config.py), its mail sender (email/sender.py)  *)
(* its local usage database (storage/database.py), the usage fetch of     *)
(* its provider (ai_providers/openai_provider.py) and the cost breakdown   *)
(* and next-receipt date of its receipts (receipts/generator.py).          *)
(*                                                                         *)
(* Time is counted in slots.  One slot is one sleep of the scheduler loop  *)
(* (time.sleep(60)); DayLen slots make a day, so the model is the program  *)
(* on a compressed clock.  Slot 0 is a Monday, 00:00.                      *)
(***************************************************************************)
EXTENDS Integers, Sequences, FiniteSets, TLC

VARIABLES
    now,          \* the wall clock, datetime.now(), in slots
    config,       \* ~/.billfrog/config.json: [agents, supabase]
    running,      \* TaskScheduler.running
    thread,       \* the scheduler thread running _run_scheduler
    thread2,      \* the thread of a start() called while the thread of an earlier one is alive
    jobs,         \* the job registry of the schedule library, in registration order
    run,          \* per runner, the call of _generate_receipt_for_agent in flight
    result,       \* per runner, how its last call of _generate_receipt_for_agent ended
    email_logs,   \* per agent, the newest rows with success = True of the Supabase table email_logs
    delivered,    \* per agent, the time of the newest receipt the mail service delivered
    calls,        \* how often generate_receipt_now and the generate command were called
    usage_records,  \* data.db: the rows of table usage_records, in insertion order
    agent_stats,    \* data.db: the rows of table agent_stats, by (agent_name, date)
    today,          \* the calendar day of the database's clock
    call,           \* per caller, the call of record_usage in flight or its outcome
    receipt_history,   \* data.db: the rows of table receipt_history, in insertion order
    local_email_logs,  \* data.db: the rows of table email_logs, in insertion order
    maint,          \* the call of save_receipt, log_email or cleanup_old_data in flight or its outcome
    probe           \* the arguments and the result of a call of a pure function

schedVars == <<now, config, running, thread, thread2, jobs, run, result, email_logs, delivered, calls>>
dbVars == <<usage_records, agent_stats, today, call>>
histVars == <<receipt_history, local_email_logs, maint>>
vars == <<schedVars, dbVars, histVars, probe>>

----------------------------------------------------------------------------
\* Bounds of the model.

DayLen == 3
MaxDays == 3
MaxSendSlots == 1
MaxManual == 1
MaxCli == 1

MaxTime == MaxDays * DayLen

\* time.sleep(60), one slot
SleepLen == 1

Agents == <<"a1", "a2">>
AgentNames == {Agents[i] : i \in 1..Len(Agents)}
Runners == {"sched", "sched2", "manual"}
Schedules == {"daily", "weekly", "monthly"}

None == <<>>

----------------------------------------------------------------------------
\* Time.

\* timedelta.days: whole days of a difference of two datetimes, rounded down
\* (timedelta(hours=-1).days is -1).
TimedeltaDays(d) == d \div DayLen

\* datetime.now().isoformat() and datetime.fromisoformat: the stored string
\* holds the instant, and parsing gives it back.
IsoFormat(t) == <<t>>
FromIsoFormat(s) == s[1]

\* 09:00 as a slot of the day
At0900 == (9 * DayLen) \div 24

\* The trigger instants of a job of the schedule library: every().day.at("09:00")
\* fires at 09:00 of every day, every().monday.at("09:00") at 09:00 of every Monday.
TriggerTimes(unit) ==
    {d * DayLen + At0900 : d \in {e \in 0..(MaxDays + 7) : unit = "weekly" => e % 7 = 0}}

\* Job._schedule_next_run: the first trigger instant after t.
NextRun(unit, t) ==
    CHOOSE x \in TriggerTimes(unit) :
        x > t /\ \A y \in TriggerTimes(unit) : y > t => x <= y

----------------------------------------------------------------------------
\* Pure functions of the scheduler.

\* A variant with a calendar month of 31 days
SkipDays_calendar(schedule) ==
    CASE schedule = "daily" -> 1
      [] schedule = "weekly" -> 7
      [] schedule = "monthly" -> 31

\* The day thresholds of _should_skip_receipt
SkipDays(schedule) ==
    CASE schedule = "daily" -> 1
      [] schedule = "weekly" -> 7
      [] schedule = "monthly" -> 30

_should_skip_receipt(agent_config, t) ==
    IF agent_config.last_receipt_sent = None
    THEN FALSE
    ELSE LET last_sent == FromIsoFormat(agent_config.last_receipt_sent)
         IN  IF agent_config.schedule \in Schedules
             THEN TimedeltaDays(t - last_sent) < SkipDays(agent_config.schedule)
             ELSE FALSE

\* A variant that looks back the default week for every schedule
_get_days_back_default(schedule) == IF schedule = "weekly" THEN 7 ELSE 7

_get_days_back(schedule) ==
    CASE schedule = "daily" -> 1
      [] schedule = "weekly" -> 7
      [] schedule = "monthly" -> 30
      [] OTHER -> 7

----------------------------------------------------------------------------
\* The configuration file.

AgentConfig(schedule, provider, api_key) ==
    [schedule |-> schedule, provider |-> provider, api_key |-> api_key,
     last_receipt_sent |-> None]

\* ConfigManager.list_agents, in the order of the file
list_agents(cfg) == SelectSeq(Agents, LAMBDA a : a \in DOMAIN cfg.agents)

\* email_logs keeps the two newest rows of an agent and delivered the newest
\* delivery: the program only ever appends to them and never reads them back.
Newest(h) == IF Len(h) > 2 THEN Tail(h) ELSE h

----------------------------------------------------------------------------
\* The state after construction: agents added with add_agent (no receipt sent
\* yet), the scheduler not started.

NoThread == [pc |-> "none", wake_at |-> 0, todo |-> <<>>]
Idle == [pc |-> "idle"]
NoResult == [kind |-> "none"]

InitConfigs ==
    {[agents |-> ags, supabase |-> sb] :
        ags \in {[a \in {"a1"} |-> AgentConfig(s, "openai", "sk")] : s \in Schedules}
          \cup {[a \in AgentNames |->
                    IF a = "a1" THEN AgentConfig("daily", "openai", "sk") ELSE c2] :
                  c2 \in {AgentConfig("weekly", "openai", ""),
                          AgentConfig("daily", "openai", ""),
                          AgentConfig("monthly", "other", "sk")}},
        sb \in BOOLEAN}

SchedulerInit ==
    /\ now = 0
    /\ config \in InitConfigs
    /\ running = FALSE
    /\ thread = NoThread
    /\ thread2 = NoThread
    /\ jobs = <<>>
    /\ run = [r \in Runners |-> Idle]
    /\ result = [r \in Runners |-> NoResult]
    /\ email_logs = [a \in AgentNames |-> <<>>]
    /\ delivered = [a \in AgentNames |-> <<>>]
    /\ calls = [manual |-> 0, cli |-> 0]

----------------------------------------------------------------------------
\* TaskScheduler.start and _setup_schedules.

\* The position of the first monthly agent of the file, 0 when there is none:
\* schedule.every().month raises AttributeError, the schedule library has no
\* month unit, and _setup_schedules stops there.
FirstMonthly(order, cfg) ==
    LET at == {i \in 1..Len(order) : cfg.agents[order[i]].schedule = "monthly"}
    IN  IF at = {} THEN 0 ELSE CHOOSE i \in at : \A j \in at : i <= j

\* The ids of the job objects that exist: those of the registry and those
\* run_pending has collected
UsedIds ==
    {jobs[i].id : i \in DOMAIN jobs}
       \cup {thread.todo[i].id : i \in DOMAIN thread.todo}
       \cup {thread2.todo[i].id : i \in DOMAIN thread2.todo}

\* The id of the k-th new job object: the k-th number that names none in used
NewId(used, k) ==
    CHOOSE n \in 1..(Cardinality(used) + k) :
       /\ n \notin used
       /\ Cardinality({m \in 1..n : m \notin used}) = k

_setup_schedules(cfg, t) ==
    LET order == list_agents(cfg)
        m == FirstMonthly(order, cfg)
        upto == IF m = 0 THEN Len(order) ELSE m - 1
    IN  [raised |-> m # 0,
         jobs |-> [i \in 1..upto |->
                     [id |-> NewId(UsedIds, i), tag |-> order[i],
                      unit |-> cfg.agents[order[i]].schedule,
                      next_run |-> NextRun(cfg.agents[order[i]].schedule, t)]]]

Start ==
    /\ ~running
    /\ running' = TRUE
    /\ LET set == _setup_schedules(config, now)
       IN  /\ jobs' = jobs \o set.jobs
           /\ thread' = IF set.raised THEN thread
                        ELSE [pc |-> "wait", wake_at |-> now, todo |-> <<>>]
    /\ UNCHANGED <<now, config, run, result, email_logs, delivered, calls>>

----------------------------------------------------------------------------
\* _run_scheduler and schedule.run_pending.

RECURSIVE InsertJob(_, _)
InsertJob(j, s) ==
    IF s = <<>> THEN <<j>>
    ELSE IF j.next_run < Head(s).next_run THEN <<j>> \o s
    ELSE <<Head(s)>> \o InsertJob(j, Tail(s))

RECURSIVE SortedJobs(_)
SortedJobs(s) == IF s = <<>> THEN <<>> ELSE InsertJob(s[Len(s)], SortedJobs(SubSeq(s, 1, Len(s) - 1)))

\* The jobs run_pending collects at t: sorted(job for job in jobs if job.should_run)
Runnable(t) == SortedJobs(SelectSeq(jobs, LAMBDA j : t >= j.next_run))

\* One pass of the loop of _run_scheduler: run_pending collects the runnable jobs
RunPending ==
    /\ thread.pc = "wait"
    /\ thread.wake_at <= now
    /\ running
    /\ thread' = [thread EXCEPT !.pc = "jobs",
                                !.todo = Runnable(now)]
    /\ UNCHANGED <<now, config, running, jobs, run, result, email_logs, delivered, calls>>

\* run_pending is through its jobs: time.sleep(60)
Sleep ==
    /\ thread.pc = "jobs"
    /\ thread.todo = <<>>
    /\ thread' = [thread EXCEPT !.pc = "wait", !.wake_at = now + SleepLen]
    /\ UNCHANGED <<now, config, running, jobs, run, result, email_logs, delivered, calls>>

\* A variant in which the error of a job leaves run_pending: the jobs
\* collected for this pass are dropped and the job is not scheduled again
Returned_aborting(r) ==
    IF r = "sched"
    THEN /\ jobs' = jobs
         /\ thread' = [thread EXCEPT !.todo = <<>>]
    ELSE UNCHANGED <<jobs, thread>>

\* Job.run once the job function has returned: the job is scheduled again
\* (only a scheduler thread runs jobs; a manual call touches no job). The
\* second thread leaves its list of collected jobs with SecondThread.
Returned(r) ==
    IF r = "sched"
    THEN /\ jobs' = [i \in DOMAIN jobs |->
                        IF jobs[i].id = Head(thread.todo).id
                        THEN [jobs[i] EXCEPT !.next_run = NextRun(jobs[i].unit, now)]
                        ELSE jobs[i]]
         /\ thread' = [thread EXCEPT !.todo = Tail(@)]
    ELSE IF r = "sched2"
    THEN /\ jobs' = [i \in DOMAIN jobs |->
                        IF jobs[i].id = Head(thread2.todo).id
                        THEN [jobs[i] EXCEPT !.next_run = NextRun(jobs[i].unit, now)]
                        ELSE jobs[i]]
         /\ thread' = thread
    ELSE UNCHANGED <<jobs, thread>>

\* The agent name a job was registered with: .do(..., agent_name)
JobTag(job) == job.tag

\* Who may call _generate_receipt_for_agent for agent a now: the scheduler
\* thread for the next job of this pass, generate_receipt_now for any name.
MayBegin(r, a) ==
    /\ run[r].pc = "idle"
    /\ CASE r = "sched" ->
               thread.pc = "jobs" /\ thread.todo # <<>> /\ JobTag(Head(thread.todo)) = a
         [] r = "sched2" ->
               thread2.pc = "jobs" /\ thread2.todo # <<>> /\ JobTag(Head(thread2.todo)) = a
         [] OTHER -> calls.manual < MaxManual

----------------------------------------------------------------------------
\* TaskScheduler._generate_receipt_for_agent, in steps.

Outcomes == {"ok", "non200", "neterror"}

\* How a call ended: the branch it returned through, the agent, and whether
\* the two writes of the success branch were made.
Ended(kind, a, stamped, logged) ==
    [kind |-> kind, agent |-> a, stamped |-> stamped, logged |-> logged]

\* Lines 86-131: the checks, the usage data and the receipt. The usage period
\* ends at the instant of the fetch and is days_back days long.
Begin(r, a) ==
    /\ MayBegin(r, a)
    /\ IF r = "manual"
       THEN calls' = [calls EXCEPT !.manual = @ + 1]
       ELSE UNCHANGED calls
    /\ LET early(kind) ==
               /\ result' = [result EXCEPT ![r] = Ended(kind, a, FALSE, FALSE)]
               /\ run' = run
               /\ Returned(r)
       IN  IF a \notin DOMAIN config.agents
           THEN early("not_found")
           ELSE LET agent_config == config.agents[a]
                IN  IF _should_skip_receipt(agent_config, now)
                    THEN early("skipped")
                    ELSE IF ~config.supabase
                    THEN early("no_supabase")
                    ELSE IF agent_config.provider # "openai"
                    THEN early("unsupported_provider")
                    ELSE IF agent_config.api_key = ""
                    THEN early("no_api_key")
                    ELSE /\ run' = [run EXCEPT ![r] =
                                [pc |-> "send", agent |-> a, agent_config |-> agent_config,
                                 checked_at |-> now,
                                 days_back |-> _get_days_back(agent_config.schedule),
                                 period_end |-> now, waited |-> 0, outcome |-> "none",
                                 success |-> FALSE, stamped |-> FALSE, cfg |-> None]]
                         /\ UNCHANGED <<result, jobs, thread>>
    /\ UNCHANGED <<now, config, running, email_logs, delivered>>

\* Lines 86-131 when one of their calls raises (load_config on an unreadable
\* file, the decryption of the key, the rendering of the receipt): the except
\* clause of line 162 logs the error and the call returns.
Raise(r, a) ==
    /\ MayBegin(r, a)
    /\ IF r = "manual"
       THEN calls' = [calls EXCEPT !.manual = @ + 1]
       ELSE UNCHANGED calls
    /\ result' = [result EXCEPT ![r] = Ended("exception", a, FALSE, FALSE)]
    /\ run' = run
    /\ Returned(r)
    /\ UNCHANGED <<now, config, running, email_logs, delivered>>

\* EmailSender.send_receipt: True on status 200, False on another status, and
\* True again when invoking the function raised (the except branch).
send_receipt(outcome) == outcome # "non200"

\* A variant of the send in which the branch of a failed send also goes
\* through _update_last_receipt_sent
Send_stamping(r, outcome) ==
    /\ run[r].pc = "send"
    /\ run' = [run EXCEPT ![r].outcome = outcome,
                          ![r].success = send_receipt(outcome),
                          ![r].pc = "stamp_load"]
    /\ delivered' = IF outcome = "ok"
                    THEN [delivered EXCEPT ![run[r].agent] = <<now>>]
                    ELSE delivered
    /\ UNCHANGED <<now, config, running, thread, jobs, result, email_logs, calls>>

\* Lines 135-139: the send. Only a 200 delivers the mail.
Send(r, outcome) ==
    /\ run[r].pc = "send"
    /\ run' = [run EXCEPT ![r].outcome = outcome,
                          ![r].success = send_receipt(outcome),
                          ![r].pc = IF send_receipt(outcome) THEN "stamp_load" ELSE "log"]
    /\ delivered' = IF outcome = "ok"
                    THEN [delivered EXCEPT ![run[r].agent] = <<now>>]
                    ELSE delivered
    /\ UNCHANGED <<now, config, running, thread, jobs, result, email_logs, calls>>

\* _update_last_receipt_sent, line 200: load_config
StampLoad(r) ==
    /\ run[r].pc = "stamp_load"
    /\ run' = [run EXCEPT ![r].cfg = config, ![r].pc = "stamp_save"]
    /\ UNCHANGED <<now, config, running, thread, jobs, result, email_logs, delivered, calls>>

\* The config _update_last_receipt_sent writes back: the one it loaded, with
\* the agent stamped at t
_update_last_receipt_sent(cfg, a, t) ==
    [cfg EXCEPT !.agents[a].last_receipt_sent = IsoFormat(t)]

\* _update_last_receipt_sent, lines 201-205: the stamp and save_config, which
\* rewrites the whole file; an exception of the write is logged and swallowed.
StampSave(r, ok) ==
    /\ run[r].pc = "stamp_save"
    /\ LET a == run[r].agent
           write == ok /\ a \in DOMAIN run[r].cfg.agents
       IN  /\ config' = IF write THEN _update_last_receipt_sent(run[r].cfg, a, now)
                        ELSE config
           /\ run' = [run EXCEPT ![r].stamped = write, ![r].pc = "log", ![r].cfg = None]
    /\ UNCHANGED <<now, running, thread, jobs, result, email_logs, delivered, calls>>

\* The row log_email_sent inserts, with the usage period of the receipt it logs
LogRow(r) ==
    [agent_name |-> run[r].agent, success |-> run[r].success,
     period_start |-> run[r].period_end - run[r].days_back * DayLen,
     period_end |-> run[r].period_end]

\* Lines 147-160: log_email_sent, whose exception is logged and swallowed;
\* then the call returns.
Log(r, ok) ==
    /\ run[r].pc = "log"
    /\ email_logs' = IF ok /\ run[r].success
                     THEN [email_logs EXCEPT ![run[r].agent] = Newest(Append(@, LogRow(r)))]
                     ELSE email_logs
    /\ result' = [result EXCEPT ![r] =
                    Ended(IF run[r].success THEN "sent" ELSE "send_failed",
                          run[r].agent, run[r].stamped, ok)]
    /\ run' = [run EXCEPT ![r] = Idle]
    /\ Returned(r)
    /\ UNCHANGED <<now, config, running, delivered, calls>>

----------------------------------------------------------------------------
\* cli.generate: a receipt for every agent, with no timing check, and neither
\* last_receipt_sent nor email_logs written.

CliGenerate(outcome) ==
    /\ calls.cli < MaxCli
    /\ DOMAIN config.agents # {}
    /\ config.supabase
    /\ delivered' = [a \in AgentNames |->
                        IF /\ a \in DOMAIN config.agents
                           /\ config.agents[a].provider = "openai"
                           /\ outcome[a] = "ok"
                        THEN <<now>>
                        ELSE delivered[a]]
    /\ calls' = [calls EXCEPT !.cli = @ + 1]
    /\ UNCHANGED <<now, config, running, thread, jobs, run, result, email_logs>>

----------------------------------------------------------------------------
\* ConfigManager.add_agent and remove_agent, called by the agent commands of
\* the command line while the scheduler runs: each loads the file, changes
\* one entry and rewrites the file.

add_agent(cfg, name, schedule, provider, api_key) ==
    [cfg EXCEPT !.agents =
        [a \in DOMAIN cfg.agents \cup {name} |->
            IF a = name THEN AgentConfig(schedule, provider, api_key) ELSE cfg.agents[a]]]

AddAgent(name) ==
    /\ name \notin DOMAIN config.agents
    /\ config' = add_agent(config, name, "daily", "openai", "sk")
    /\ UNCHANGED <<now, running, thread, jobs, run, result, email_logs, delivered, calls>>

remove_agent(cfg, name) ==
    [cfg EXCEPT !.agents = [a \in DOMAIN cfg.agents \ {name} |-> cfg.agents[a]]]

\* remove_agent where it returns True
RemoveAgent(name) ==
    /\ name \in DOMAIN config.agents
    /\ config' = remove_agent(config, name)
    /\ UNCHANGED <<now, running, thread, jobs, run, result, email_logs, delivered, calls>>

----------------------------------------------------------------------------
\* The environment: the scheduler process dies, and time passes.

\* The process is killed: its thread, its jobs and the call in flight are gone;
\* the config file and the tables stay.
Crash ==
    /\ running
    /\ running' = FALSE
    /\ thread' = NoThread
    /\ jobs' = <<>>
    /\ run' = [run EXCEPT !["sched"] = Idle]
    /\ result' = [result EXCEPT !["sched"] =
                    IF run["sched"].pc = "idle" THEN NoResult
                    ELSE Ended(IF run["sched"].success THEN "killed_after_send" ELSE "killed",
                               run["sched"].agent, run["sched"].stamped, FALSE)]
    /\ UNCHANGED <<now, config, email_logs, delivered, calls>>

\* A slot passes. Local steps take no time at this scale: the clock moves only
\* while every runner is idle, asleep or waiting for the mail service, and a
\* send waits for at most MaxSendSlots slots.
Advance ==
    /\ now < MaxTime
    /\ thread.pc = "wait" => thread.wake_at > now
    /\ thread.pc = "jobs" => run["sched"].pc = "send"
    /\ \A r \in Runners :
          \/ run[r].pc = "idle"
          \/ run[r].pc = "send" /\ run[r].waited < MaxSendSlots
    /\ now' = now + 1
    /\ run' = [r \in Runners |->
                 IF run[r].pc = "send" THEN [run[r] EXCEPT !.waited = @ + 1] ELSE run[r]]
    /\ UNCHANGED <<config, running, thread, jobs, result, email_logs, delivered, calls>>

\* TaskScheduler.stop: the flag, schedule.clear() and a join of at most five
\* seconds, which is over within the slot whether the thread has ended or
\* not. The jobs run_pending has collected are no longer in schedule.jobs but
\* stay in its list.
Stop ==
    /\ running
    /\ running' = FALSE
    /\ jobs' = <<>>
    /\ UNCHANGED <<now, config, thread, run, result, email_logs, delivered, calls>>

\* A variant of the loop that does not read the flag: with the flag down it
\* goes back to sleep
ThreadExit_sleeping ==
    /\ thread.pc = "wait"
    /\ thread.wake_at <= now
    /\ ~running
    /\ thread' = [thread EXCEPT !.wake_at = now + SleepLen]
    /\ UNCHANGED <<now, config, running, jobs, run, result, email_logs, delivered, calls>>

\* _run_scheduler, line 76: the loop reads the flag after its sleep and ends
ThreadExit ==
    /\ thread.pc = "wait"
    /\ thread.wake_at <= now
    /\ ~running
    /\ thread' = NoThread
    /\ UNCHANGED <<now, config, running, jobs, run, result, email_logs, delivered, calls>>

----------------------------------------------------------------------------
\* storage/database.py: record_usage and _update_daily_stats, in steps.
\* Amounts are whole numbers (cost in cents).

Callers == {"c1", "c2"}

MaxCalls == 3
MaxDbDays == 1

\* The arguments of the calls of record_usage
UsageInputs ==
    {[agent_name |-> "a1", model |-> "gpt-4", tokens |-> 3, cost_usd |-> 2],
     [agent_name |-> "a1", model |-> "gpt-3.5-turbo", tokens |-> 5, cost_usd |-> 1],
     [agent_name |-> "a2", model |-> "gpt-4", tokens |-> 3, cost_usd |-> 2]}

NoCall == [pc |-> "idle"]

DbInit ==
    /\ usage_records = <<>>
    /\ agent_stats = << >>
    /\ today = 0
    /\ call = [c \in Callers |-> NoCall]
    /\ receipt_history = <<>>
    /\ local_email_logs = <<>>
    /\ maint = NoCall

InCall(c) == call[c].pc \in {"stats_read", "stats_write"}

\* record_usage, lines 102-121: the INSERT into usage_records and its commit;
\* a storage error makes record_usage return False.
Insert(c, in, ok) ==
    /\ ~InCall(c)
    /\ Len(usage_records) + Cardinality({d \in Callers : InCall(d)}) < MaxCalls
    /\ IF ok
       THEN /\ usage_records' = Append(usage_records,
                  [agent_name |-> in.agent_name, date |-> today, model |-> in.model,
                   total_tokens |-> in.tokens, cost_usd |-> in.cost_usd])
            /\ call' = [call EXCEPT ![c] =
                  [pc |-> "stats_read", in |-> in, row |-> Len(usage_records) + 1,
                   credited |-> FALSE]]
       ELSE /\ usage_records' = usage_records
            /\ call' = [call EXCEPT ![c] =
                  [pc |-> "returned", ret |-> FALSE, in |-> in, row |-> 0,
                   credited |-> FALSE]]
    /\ UNCHANGED <<agent_stats, today>>

\* _update_daily_stats, lines 304-316: today's date and the SELECT of the
\* existing row
StatsRead(c) ==
    /\ call[c].pc = "stats_read"
    /\ LET key == <<call[c].in.agent_name, today>>
       IN  call' = [call EXCEPT ![c] =
               [pc |-> "stats_write", in |-> call[c].in, row |-> call[c].row,
                credited |-> FALSE, key |-> key,
                existing |-> IF key \in DOMAIN agent_stats
                             THEN <<agent_stats[key]>> ELSE None]]
    /\ UNCHANGED <<usage_records, agent_stats, today>>

\* The row _update_daily_stats writes: the sums over the row it read, or a
\* first row
NewStats(existing, in) ==
    IF existing # None
    THEN LET e == existing[1]
         IN  [total_requests |-> e.total_requests + 1,
              total_tokens |-> e.total_tokens + in.tokens,
              total_cost_usd |-> e.total_cost_usd + in.cost_usd,
              models_used |-> [m \in DOMAIN e.models_used \cup {in.model} |->
                                 (IF m \in DOMAIN e.models_used THEN e.models_used[m] ELSE 0)
                                 + (IF m = in.model THEN 1 ELSE 0)]]
    ELSE [total_requests |-> 1, total_tokens |-> in.tokens,
          total_cost_usd |-> in.cost_usd, models_used |-> (in.model :> 1)]

\* _update_daily_stats, lines 318-348: the UPDATE of the row read, or the
\* INSERT of a first row, which UNIQUE(agent_name, date) refuses when the row
\* exists by now; every exception is logged and swallowed, and record_usage
\* returns True.
StatsWrite(c, ok) ==
    /\ call[c].pc = "stats_write"
    /\ LET key == call[c].key
           applies == /\ ok
                      /\ (call[c].existing = None) = (key \notin DOMAIN agent_stats)
       IN  /\ agent_stats' =
                 IF applies
                 THEN [k \in DOMAIN agent_stats \cup {key} |->
                         IF k = key THEN NewStats(call[c].existing, call[c].in)
                         ELSE agent_stats[k]]
                 ELSE agent_stats
           /\ call' = [call EXCEPT ![c] =
                 [pc |-> "returned", ret |-> TRUE, in |-> call[c].in,
                  row |-> call[c].row, credited |-> applies]]
    /\ UNCHANGED <<usage_records, today>>

\* The calling process is killed inside record_usage
Kill(c) ==
    /\ InCall(c)
    /\ call' = [call EXCEPT ![c] =
          [pc |-> "killed", ret |-> FALSE, in |-> call[c].in, row |-> call[c].row,
           credited |-> FALSE]]
    /\ UNCHANGED <<usage_records, agent_stats, today>>

\* Midnight
NextDay ==
    /\ today < MaxDbDays
    /\ today' = today + 1
    /\ UNCHANGED <<usage_records, agent_stats, call>>

----------------------------------------------------------------------------
\* A call of _should_skip_receipt on arguments drawn from bounded sets.

MaxProbeDays == 31
MaxProbeLast == 4

ProbeInit ==
    probe \in [schedule : Schedules,
               last_receipt_sent : {None} \cup {IsoFormat(t) : t \in 0..(MaxProbeLast * DayLen)},
               t : 0..(MaxProbeDays * DayLen),
               out : {None}]

Evaluate ==
    /\ probe.out = None
    /\ probe' = [probe EXCEPT !.out = <<_should_skip_receipt(probe, probe.t)>>]

NoProbe == [schedule |-> "daily", last_receipt_sent |-> None, t |-> 0, out |-> None]

----------------------------------------------------------------------------
\* Specifications.

SchedRest == UNCHANGED <<thread2, dbVars, histVars, probe>>

\* The scheduler process with its faults
NextSched ==
    \/ Start /\ SchedRest
    \/ RunPending /\ SchedRest
    \/ Sleep /\ SchedRest
    \/ \E a \in AgentNames : Begin("sched", a) /\ SchedRest
    \/ \E a \in AgentNames : Raise("sched", a) /\ SchedRest
    \/ \E o \in Outcomes : Send("sched", o) /\ SchedRest
    \/ StampLoad("sched") /\ SchedRest
    \/ \E ok \in BOOLEAN : StampSave("sched", ok) /\ SchedRest
    \/ \E ok \in BOOLEAN : Log("sched", ok) /\ SchedRest
    \/ Crash /\ SchedRest
    \/ Advance /\ SchedRest

\* The scheduler process and the generate command
Next ==
    \/ NextSched
    \/ \E o \in [AgentNames -> Outcomes] : CliGenerate(o) /\ SchedRest

Init == SchedulerInit /\ DbInit /\ probe = NoProbe

Spec == Init /\ [][Next]_vars

\* The scheduler process alone, in an environment without faults: every send
\* is delivered, every write succeeds, the process is never killed.
NextTicks ==
    \/ Start /\ SchedRest
    \/ RunPending /\ SchedRest
    \/ Sleep /\ SchedRest
    \/ \E a \in AgentNames : Begin("sched", a) /\ SchedRest
    \/ Send("sched", "ok") /\ SchedRest
    \/ StampLoad("sched") /\ SchedRest
    \/ StampSave("sched", TRUE) /\ SchedRest
    \/ Log("sched", TRUE) /\ SchedRest
    \/ Advance /\ SchedRest

SpecTicks == Init /\ [][NextTicks]_vars

\* The scheduler process where the process may be killed and restarted and a
\* send or a log write may fail, but every write of the config file succeeds.
NextCrash ==
    \/ Start /\ SchedRest
    \/ RunPending /\ SchedRest
    \/ Sleep /\ SchedRest
    \/ \E a \in AgentNames : Begin("sched", a) /\ SchedRest
    \/ \E a \in AgentNames : Raise("sched", a) /\ SchedRest
    \/ \E o \in Outcomes : Send("sched", o) /\ SchedRest
    \/ StampLoad("sched") /\ SchedRest
    \/ StampSave("sched", TRUE) /\ SchedRest
    \/ \E ok \in BOOLEAN : Log("sched", ok) /\ SchedRest
    \/ Crash /\ SchedRest
    \/ Advance /\ SchedRest

SpecCrash == Init /\ [][NextCrash]_vars

\* The scheduler process and generate_receipt_now called from another thread:
\* no crash, every send is delivered, and a write of the config file may fail.
NextManual ==
    \/ Start /\ SchedRest
    \/ RunPending /\ SchedRest
    \/ Sleep /\ SchedRest
    \/ \E r \in Runners, a \in AgentNames : Begin(r, a) /\ SchedRest
    \/ \E r \in Runners : Send(r, "ok") /\ SchedRest
    \/ \E r \in Runners : StampLoad(r) /\ SchedRest
    \/ \E r \in Runners, ok \in BOOLEAN : StampSave(r, ok) /\ SchedRest
    \/ \E r \in Runners : Log(r, TRUE) /\ SchedRest
    \/ Advance /\ SchedRest

SpecManual == Init /\ [][NextManual]_vars

\* The scheduler process with stop(): no crash, every send is delivered and
\* every write succeeds; start() is called again once the old thread has ended.
NextStop ==
    \/ (thread.pc = "none" /\ Start) /\ SchedRest
    \/ RunPending /\ SchedRest
    \/ Sleep /\ SchedRest
    \/ \E a \in AgentNames : Begin("sched", a) /\ SchedRest
    \/ Send("sched", "ok") /\ SchedRest
    \/ StampLoad("sched") /\ SchedRest
    \/ StampSave("sched", TRUE) /\ SchedRest
    \/ Log("sched", TRUE) /\ SchedRest
    \/ Stop /\ SchedRest
    \/ ThreadExit /\ SchedRest
    \/ Advance /\ SchedRest

SpecStop == Init /\ [][NextStop]_vars

\* The scheduler process while agents are added and removed: no crash, every
\* send is delivered and every write succeeds.
NextConfig ==
    \/ Start /\ SchedRest
    \/ RunPending /\ SchedRest
    \/ Sleep /\ SchedRest
    \/ \E a \in AgentNames : Begin("sched", a) /\ SchedRest
    \/ Send("sched", "ok") /\ SchedRest
    \/ StampLoad("sched") /\ SchedRest
    \/ StampSave("sched", TRUE) /\ SchedRest
    \/ Log("sched", TRUE) /\ SchedRest
    \/ \E a \in AgentNames : AddAgent(a) /\ SchedRest
    \/ \E a \in AgentNames : RemoveAgent(a) /\ SchedRest
    \/ Advance /\ SchedRest

SpecConfig == Init /\ [][NextConfig]_vars

\* One configuration, for the specifications in which the scheduler is idle
QuietInit ==
    /\ SchedulerInit
    /\ DOMAIN config.agents = {"a1"}
    /\ config.agents["a1"].schedule = "daily"
    /\ config.supabase

\* The usage database under concurrent callers
NextDb ==
    \/ \E c \in Callers, in \in UsageInputs, ok \in BOOLEAN :
          Insert(c, in, ok) /\ UNCHANGED <<schedVars, histVars, probe>>
    \/ \E c \in Callers : StatsRead(c) /\ UNCHANGED <<schedVars, histVars, probe>>
    \/ \E c \in Callers, ok \in BOOLEAN : StatsWrite(c, ok) /\ UNCHANGED <<schedVars, histVars, probe>>
    \/ \E c \in Callers : Kill(c) /\ UNCHANGED <<schedVars, histVars, probe>>
    \/ NextDay /\ UNCHANGED <<schedVars, histVars, probe>>

InitDb == QuietInit /\ DbInit /\ probe = NoProbe

SpecDb == InitDb /\ [][NextDb]_vars

\* The usage database under concurrent callers, with no storage error, no
\* killed caller and no midnight
NextDbRace ==
    \/ \E c \in Callers, in \in UsageInputs :
          Insert(c, in, TRUE) /\ UNCHANGED <<schedVars, histVars, probe>>
    \/ \E c \in Callers : StatsRead(c) /\ UNCHANGED <<schedVars, histVars, probe>>
    \/ \E c \in Callers : StatsWrite(c, TRUE) /\ UNCHANGED <<schedVars, histVars, probe>>

SpecDbRace == InitDb /\ [][NextDbRace]_vars

\* _should_skip_receipt on every input of the bounded sets
InitSkip == QuietInit /\ DbInit /\ ProbeInit

NextSkip == Evaluate /\ UNCHANGED <<schedVars, dbVars, histVars>>

SpecSkip == InitSkip /\ [][NextSkip]_vars

----------------------------------------------------------------------------
\* Properties.

\* The cadence interval of the specification: daily 1 day, weekly 7 days,
\* monthly 30 days
CadenceInterval(schedule) ==
    CASE schedule = "daily" -> 1 * DayLen
      [] schedule = "weekly" -> 7 * DayLen
      [] schedule = "monthly" -> 30 * DayLen

\* Due as the specification defines it
Due(agent_config, t) ==
    \/ agent_config.last_receipt_sent = None
    \/ t - agent_config.last_receipt_sent[1] >= CadenceInterval(agent_config.schedule)

\* C1: no two receipts are delivered to the same agent less than one cadence
\* interval apart, whatever triggered them (scheduled job, generate command)
\* and whatever write failed in between.
C1_AtMostOncePerInterval ==
    [][\A a \in AgentNames :
          (/\ a \in DOMAIN config.agents
           /\ delivered[a] # None
           /\ delivered'[a] # delivered[a])
          => delivered'[a][1] - delivered[a][1] >= CadenceInterval(config.agents[a].schedule)]_vars

\* C2: where every send is delivered and every write succeeds, no scheduled
\* run of an agent's job ends in the skip branch of _should_skip_receipt.
C2_NoTriggerSkipped == result["sched"].kind # "skipped"

RECURSIVE SumOf(_, _)
SumOf(rows, field) ==
    IF rows = <<>> THEN 0 ELSE Head(rows)[field] + SumOf(Tail(rows), field)

UsageOf(key) ==
    SelectSeq(usage_records, LAMBDA u : u.agent_name = key[1] /\ u.date = key[2])

\* C3: once no call of record_usage is in flight, every (agent, day) with
\* usage rows has an agent_stats row whose total_requests, total_tokens and
\* total_cost_usd are the count and the sums of those usage rows.
C3_AggregateEqualsSum ==
    (\A c \in Callers : ~InCall(c))
    => \A i \in 1..Len(usage_records) :
          LET key == <<usage_records[i].agent_name, usage_records[i].date>>
          IN  /\ key \in DOMAIN agent_stats
              /\ agent_stats[key].total_requests = Len(UsageOf(key))
              /\ agent_stats[key].total_tokens = SumOf(UsageOf(key), "total_tokens")
              /\ agent_stats[key].total_cost_usd = SumOf(UsageOf(key), "cost_usd")

\* C4: a call of record_usage that has ended, by returning or by its process
\* being killed, left either both the usage row and its contribution to
\* agent_stats or neither, and it returned True only when both were applied.
C4_BothOrNeither ==
    \A c \in Callers :
       call[c].pc \in {"returned", "killed"}
       => /\ (call[c].row # 0) <=> call[c].credited
          /\ call[c].ret => (call[c].row # 0 /\ call[c].credited)

\* C5: a run whose send failed transiently (a non-200 response or a network
\* error) leaves the agent's last_receipt_sent as the run found it.
C5_TransientFailureLeavesStamp ==
    \A r \in Runners :
       (/\ run[r].pc = "log"
        /\ run[r].outcome \in {"non200", "neterror"}
        /\ run[r].agent \in DOMAIN config.agents)
       => config.agents[run[r].agent].last_receipt_sent
             = run[r].agent_config.last_receipt_sent

\* C6: a run whose send succeeded has, once it is over (returned or killed),
\* written both the success record and the new last_receipt_sent or neither.
C6_RecordAndStampTogether ==
    \A r \in Runners :
       result[r].kind \in {"sent", "killed_after_send"}
       => (result[r].stamped <=> result[r].logged)

Overlap(x, y) == x.period_start < y.period_end /\ y.period_start < x.period_end

\* C7: with crashes and restarts of the scheduler process (the config writes
\* themselves succeeding), no two success records of an agent cover
\* overlapping usage periods.
C7_NoOverlappingSuccessRecords ==
    \A a \in AgentNames :
       \A i, j \in 1..Len(email_logs[a]) :
          i < j => ~Overlap(email_logs[a][i], email_logs[a][j])

\* The process was killed after a send that succeeded and before the commit,
\* it was restarted, and a later run of the same agent has sent again and is
\* about to write its success record next to an earlier one.
C7_Witness ==
    /\ result["sched"].kind = "killed_after_send"
    /\ ~result["sched"].stamped
    /\ run["sched"].pc = "log"
    /\ run["sched"].success
    /\ run["sched"].agent = result["sched"].agent
    /\ email_logs[run["sched"].agent] # <<>>

\* A pass of the scheduler loop: run_pending collects the jobs it will run
TickStep == thread.pc = "wait" /\ thread'.pc = "jobs"

\* The agents whose pipeline the pass that begins will call
Dispatched == {JobTag(thread'.todo[i]) : i \in 1..Len(thread'.todo)}

\* C8: every tick dispatches a daily agent whose last_receipt_sent is unset or
\* 24 hours or more old, and a run less than 24 hours after last_receipt_sent
\* is skipped.
C8_DailyScenario ==
    [][/\ TickStep =>
            \A a \in DOMAIN config.agents :
               (config.agents[a].schedule = "daily" /\ Due(config.agents[a], now))
               => a \in Dispatched
       /\ \A r \in Runners :
            (/\ run[r].pc = "idle" /\ run'[r].pc = "send"
             /\ run'[r].agent_config.schedule = "daily")
            => Due(run'[r].agent_config, now)]_vars

\* C9: _should_skip_receipt returns False exactly when last_receipt_sent is
\* unset or now - last_receipt_sent is at least the cadence interval, and True
\* otherwise, a last_receipt_sent in the future included.
C9_DueExactlyWhenIntervalElapsed ==
    probe.out # None => (probe.out[1] = FALSE <=> Due(probe, probe.t))

\* _should_skip_receipt was called on a monthly agent exactly 30 days after
\* its last receipt and returned False.
C9_Witness ==
    /\ probe.out = <<FALSE>>
    /\ probe.schedule = "monthly"
    /\ probe.last_receipt_sent # None
    /\ probe.t - probe.last_receipt_sent[1] = 30 * DayLen

\* C10: every tick of the scheduler loop dispatches every agent that is due
\* at that tick, whatever its cadence, the first tick after a restart included.
C10_EveryTickDispatchesDue ==
    [][TickStep =>
          \A a \in DOMAIN config.agents : Due(config.agents[a], now) => a \in Dispatched]_vars

\* C11: the usage period of a dispatch starts at the agent's last_receipt_sent
\* when that is set, and the periods of two consecutive success records of an
\* agent are contiguous: the later one starts where the earlier one ended.
C11_PeriodsContiguous ==
    /\ \A r \in Runners :
          (run[r].pc # "idle" /\ run[r].agent_config.last_receipt_sent # None)
          => run[r].period_end - run[r].days_back * DayLen
                = FromIsoFormat(run[r].agent_config.last_receipt_sent)
    /\ \A a \in AgentNames :
          Len(email_logs[a]) = 2
          => email_logs[a][2].period_start = email_logs[a][1].period_end

\* The scheduler thread calls _generate_receipt_for_agent for agent a
SchedBeginStep(a) ==
    /\ run["sched"].pc = "idle"
    /\ thread.pc = "jobs"
    /\ thread.todo # <<>>
    /\ JobTag(Head(thread.todo)) = a
    /\ thread'.pc = "jobs"
    /\ run'["sched"].pc = "send" \/ thread'.todo # thread.todo

PermanentKinds == {"no_api_key", "unsupported_provider"}

\* C12: a run that ends in a permanent failure (no usable API key, unsupported
\* provider) leaves last_receipt_sent unchanged and writes a record of the
\* failure, and the scheduler does not call the pipeline for that agent again.
C12_PermanentFailureParked ==
    [][\A a \in AgentNames :
          /\ (SchedBeginStep(a) /\ result'["sched"].kind \in PermanentKinds)
             => (config' = config /\ result'["sched"].logged)
          /\ (result["sched"].kind \in PermanentKinds /\ result["sched"].agent = a)
             => ~SchedBeginStep(a)]_vars

\* A run of the scheduler thread ends and the process lives on
SchedEndStep ==
    /\ thread.pc = "jobs"
    /\ thread.todo # <<>>
    /\ running'
    /\ run'["sched"].pc = "idle"
    /\ run["sched"].pc # "idle" \/ thread' # thread

FailureKinds ==
    {"exception", "send_failed", "no_supabase", "unsupported_provider", "no_api_key",
     "not_found"}

\* C13: when the run of one agent ends in an exception or a failure, the
\* scheduler thread goes on with the other jobs it collected for this pass,
\* every job stays registered, the job that failed is scheduled for its next
\* trigger, and the scheduler thread does not end.
C13_FailuresIsolated ==
    [][/\ (SchedEndStep /\ result'["sched"].kind \in FailureKinds)
          => /\ thread'.pc = "jobs"
             /\ thread'.todo = Tail(thread.todo)
             /\ {jobs'[i].id : i \in DOMAIN jobs'} = {jobs[i].id : i \in DOMAIN jobs}
             /\ \A i \in DOMAIN jobs' :
                   jobs'[i].id = Head(thread.todo).id => jobs'[i].next_run > now
       /\ (thread.pc # "none" /\ running') => thread'.pc # "none"]_vars

\* The run of a1 ended in an exception or a failed send, and the job of
\* another agent collected in the same pass is the next the thread runs.
C13_Witness ==
    /\ result["sched"].kind \in {"exception", "send_failed"}
    /\ thread.pc = "jobs"
    /\ thread.todo # <<>>
    /\ JobTag(Head(thread.todo)) # result["sched"].agent
    /\ run["sched"].pc = "idle"

\* C14: once start() has run, one job is registered for every configured
\* agent, whatever its cadence, and the scheduler thread runs.
C14_EveryAgentScheduled ==
    running
    => /\ thread.pc # "none"
       /\ \A a \in DOMAIN config.agents :
             Cardinality({i \in DOMAIN jobs : jobs[i].tag = a}) = 1

\* C15: once stop() has been called the scheduler thread starts no run of the
\* pipeline, also not for a job it had collected before the call.
C15_NoRunAfterStop ==
    [][~running => \A a \in AgentNames : ~SchedBeginStep(a)]_vars

\* C16: two runs of the pipeline for the same agent, one of the scheduler
\* thread and one of generate_receipt_now, never both get past the check of
\* last_receipt_sent and send: no state has two runs in flight for one agent
\* that have both sent their receipt.
C16_OneSendPerAgentAmongConcurrentRuns ==
    ~(/\ run["sched"].pc # "idle"
      /\ run["manual"].pc # "idle"
      /\ run["sched"].agent = run["manual"].agent
      /\ run["sched"].outcome = "ok"
      /\ run["manual"].outcome = "ok")

\* The write of _update_last_receipt_sent by runner r
CommitStep(r) == run[r].pc = "stamp_save" /\ run'[r].pc = "log"

\* C17: the commit of a run for agent A, concurrent with add_agent,
\* remove_agent or another commit, leaves the entry of every other agent B as
\* it is in the file: it neither removes, nor reverts, nor re-creates it.
C17_CommitLeavesOtherAgents ==
    [][\A r \in Runners :
          CommitStep(r)
          => \A b \in AgentNames \ {run[r].agent} :
                /\ b \in DOMAIN config.agents <=> b \in DOMAIN config'.agents
                /\ b \in DOMAIN config.agents => config'.agents[b] = config.agents[b]]_vars

\* C18: an agent that remove_agent has deleted stays deleted: the commit of a
\* run that was in flight for it does not write its entry back, and no run
\* of a later tick sends a receipt for it.
C18_RemovedAgentStaysRemoved ==
    [][/\ \A r \in Runners :
            (CommitStep(r) /\ run[r].agent \notin DOMAIN config.agents)
            => run[r].agent \notin DOMAIN config'.agents
       /\ \A a \in AgentNames :
            (SchedBeginStep(a) /\ a \notin DOMAIN config.agents)
            => run'["sched"].pc = "idle"]_vars

\* C19: the runs of the jobs collected in one tick do not wait for each
\* other: while a single run is in flight (fewer than any pool of two or more
\* workers), no other collected job is kept from starting while that run
\* waits for the mail service.
C19_SlowSendDelaysNoOtherRun ==
    ~(/\ run["sched"].pc = "send"
      /\ run["sched"].waited >= 1
      /\ \E i \in 1..Len(thread.todo) : JobTag(thread.todo[i]) # run["sched"].agent)

\* The kinds of return of a run that got past the timing check
DispatchKinds ==
    {"exception", "no_supabase", "unsupported_provider", "no_api_key", "sent", "send_failed"}

\* C20: every run of the pipeline that started a dispatch (it got past the
\* timing check) has written a record of the attempt when it returns.
C20_EveryDispatchRecorded ==
    \A r \in Runners : result[r].kind \in DispatchKinds => result[r].logged

----------------------------------------------------------------------------
\* storage/database.py: save_receipt, log_email and cleanup_old_data.

MaxKeep == 1
MaxReceipts == 2
MaxLogs == 1

\* The receipt ids the callers of save_receipt pass
ReceiptIds == {"BF-1", "BF-2"}

\* No call of save_receipt, log_email or cleanup_old_data is in flight
Quiet == maint.pc \in {"idle", "returned"}

\* save_receipt: the INSERT into receipt_history and its commit; receipt_id is
\* UNIQUE, and every exception makes save_receipt return False.
SaveReceipt(agent_name, receipt_id, ok) ==
    /\ Quiet
    /\ Len(receipt_history) < MaxReceipts
    /\ LET stored == /\ ok
                     /\ \A i \in DOMAIN receipt_history :
                           receipt_history[i].receipt_id # receipt_id
       IN  /\ receipt_history' =
                 IF stored
                 THEN Append(receipt_history,
                        [receipt_id |-> receipt_id, agent_name |-> agent_name,
                         date |-> today])
                 ELSE receipt_history
           /\ maint' = [pc |-> "returned", op |-> "save_receipt", ret |-> stored]
    /\ UNCHANGED <<local_email_logs, dbVars>>

\* log_email: the INSERT into the local table email_logs and its commit
log_email(agent_name, success, ok) ==
    /\ Quiet
    /\ Len(local_email_logs) < MaxLogs
    /\ local_email_logs' =
          IF ok
          THEN Append(local_email_logs,
                 [agent_name |-> agent_name, success |-> success, date |-> today])
          ELSE local_email_logs
    /\ maint' = [pc |-> "returned", op |-> "log_email", ret |-> ok]
    /\ UNCHANGED <<receipt_history, dbVars>>

\* A comparison that also deletes the rows of the cutoff day
Older_inclusive(date, cutoff_date) == date <= cutoff_date

\* The comparison of the three DELETE statements: date < cutoff_date
Older(date, cutoff_date) == date < cutoff_date

\* The rows a DELETE of cleanup_old_data leaves of a table
Kept(rows, deleted, cutoff_date) ==
    IF deleted
    THEN SelectSeq(rows, LAMBDA r : ~Older(r.date, cutoff_date))
    ELSE rows

\* The rows the DELETE leaves of agent_stats
KeptStats(stats, deleted, cutoff_date) ==
    IF deleted
    THEN [k \in {j \in DOMAIN stats : ~Older(j[2], cutoff_date)} |-> stats[k]]
    ELSE stats

\* cleanup_old_data, lines 386-390: the cutoff date and the connection
CleanupBegin(days_to_keep) ==
    /\ Quiet
    /\ maint' = [pc |-> "delete_usage", op |-> "cleanup_old_data",
                 cutoff_date |-> today - days_to_keep,
                 usage |-> FALSE, logs |-> FALSE, stats |-> FALSE]
    /\ UNCHANGED <<receipt_history, local_email_logs, dbVars>>

\* The transaction of cleanup_old_data holds the write lock of data.db
WriteLocked == maint.pc \in {"delete_logs", "delete_stats", "commit"}

\* Lines 393-396: DELETE FROM usage_records, inside the transaction
CleanupDeleteUsage ==
    /\ maint.pc = "delete_usage"
    /\ maint' = [maint EXCEPT !.pc = "delete_logs", !.usage = TRUE]
    /\ UNCHANGED <<receipt_history, local_email_logs, dbVars>>

\* Lines 399-402: DELETE FROM email_logs, inside the transaction
CleanupDeleteLogs ==
    /\ maint.pc = "delete_logs"
    /\ maint' = [maint EXCEPT !.pc = "delete_stats", !.logs = TRUE]
    /\ UNCHANGED <<receipt_history, local_email_logs, dbVars>>

\* Lines 405-408: DELETE FROM agent_stats, inside the transaction
CleanupDeleteStats ==
    /\ maint.pc = "delete_stats"
    /\ maint' = [maint EXCEPT !.pc = "commit", !.stats = TRUE]
    /\ UNCHANGED <<receipt_history, local_email_logs, dbVars>>

\* Lines 410-413: conn.commit() makes the three DELETEs visible at once;
\* cleanup_old_data returns True.
CleanupCommit ==
    /\ maint.pc = "commit"
    /\ usage_records' = Kept(usage_records, maint.usage, maint.cutoff_date)
    /\ local_email_logs' = Kept(local_email_logs, maint.logs, maint.cutoff_date)
    /\ agent_stats' = KeptStats(agent_stats, maint.stats, maint.cutoff_date)
    /\ maint' = [maint EXCEPT !.pc = "returned"] @@ ("ret" :> TRUE)
    /\ UNCHANGED <<receipt_history, today, call>>

\* An exception at any statement committing what ran before it: a connection
\* in autocommit mode
CleanupFail_committing ==
    /\ maint.pc \in {"delete_usage", "delete_logs", "delete_stats", "commit"}
    /\ usage_records' = Kept(usage_records, maint.usage, maint.cutoff_date)
    /\ local_email_logs' = Kept(local_email_logs, maint.logs, maint.cutoff_date)
    /\ agent_stats' = KeptStats(agent_stats, maint.stats, maint.cutoff_date)
    /\ maint' = [maint EXCEPT !.pc = "returned"] @@ ("ret" :> FALSE)
    /\ UNCHANGED <<receipt_history, today, call>>

\* Lines 415-416: an exception at any statement or at the commit leaves the
\* with block, which rolls the transaction back; cleanup_old_data returns False.
CleanupFail ==
    /\ maint.pc \in {"delete_usage", "delete_logs", "delete_stats", "commit"}
    /\ maint' = [maint EXCEPT !.pc = "returned"] @@ ("ret" :> FALSE)
    /\ UNCHANGED <<receipt_history, local_email_logs, dbVars>>

\* The usage tables and cleanup_old_data: record_usage by one caller, whose
\* write of agent_stats may fail, with events of one model; a writer waits
\* while the transaction of cleanup_old_data holds the write lock.
NextCleanup ==
    \/ \E in \in {i \in UsageInputs : i.model = "gpt-4"} :
          (~WriteLocked /\ Insert("c1", in, TRUE)) /\ UNCHANGED <<schedVars, histVars, probe>>
    \/ StatsRead("c1") /\ UNCHANGED <<schedVars, histVars, probe>>
    \/ \E ok \in BOOLEAN :
          (~WriteLocked /\ StatsWrite("c1", ok)) /\ UNCHANGED <<schedVars, histVars, probe>>
    \/ NextDay /\ UNCHANGED <<schedVars, histVars, probe>>
    \/ \E days_to_keep \in 0..MaxKeep : CleanupBegin(days_to_keep) /\ UNCHANGED <<schedVars, probe>>
    \/ CleanupDeleteUsage /\ UNCHANGED <<schedVars, probe>>
    \/ CleanupDeleteLogs /\ UNCHANGED <<schedVars, probe>>
    \/ CleanupDeleteStats /\ UNCHANGED <<schedVars, probe>>
    \/ CleanupCommit /\ UNCHANGED <<schedVars, probe>>
    \/ CleanupFail /\ UNCHANGED <<schedVars, probe>>

SpecCleanup == InitDb /\ [][NextCleanup]_vars

\* The dispatch records of data.db and cleanup_old_data
NextHistory ==
    \/ \E a \in AgentNames, id \in ReceiptIds, ok \in BOOLEAN :
          SaveReceipt(a, id, ok) /\ UNCHANGED <<schedVars, probe>>
    \/ \E a \in AgentNames, success \in BOOLEAN, ok \in BOOLEAN :
          log_email(a, success, ok) /\ UNCHANGED <<schedVars, probe>>
    \/ NextDay /\ UNCHANGED <<schedVars, histVars, probe>>
    \/ \E days_to_keep \in 0..MaxKeep : CleanupBegin(days_to_keep) /\ UNCHANGED <<schedVars, probe>>
    \/ CleanupDeleteUsage /\ UNCHANGED <<schedVars, probe>>
    \/ CleanupDeleteLogs /\ UNCHANGED <<schedVars, probe>>
    \/ CleanupDeleteStats /\ UNCHANGED <<schedVars, probe>>
    \/ CleanupCommit /\ UNCHANGED <<schedVars, probe>>
    \/ CleanupFail /\ UNCHANGED <<schedVars, probe>>

SpecHistory == InitDb /\ [][NextHistory]_vars

----------------------------------------------------------------------------
\* Properties of the stored tables.

\* The usage_records rows of an agent and a day
RowsOf(rows, key) ==
    SelectSeq(rows, LAMBDA r : r.agent_name = key[1] /\ r.date = key[2])

\* The keys (agent_name, date) of the model
StatKeys == AgentNames \X (0..MaxDbDays)

\* A step of cleanup_old_data that returns
CleanupReturns == maint.pc \in {"delete_usage", "delete_logs", "delete_stats", "commit"}
                  /\ maint'.pc = "returned"

\* C21: dispatch records are append-only with unique ids: save_receipt with a
\* receipt_id that exists returns False and leaves receipt_history unchanged,
\* and no storage operation, cleanup_old_data in particular, updates or
\* deletes a row of receipt_history or of the local email_logs.
C21_DispatchRecordsAppendOnly ==
    [][/\ \A i \in DOMAIN receipt_history :
             /\ i \in DOMAIN receipt_history'
             /\ receipt_history'[i] = receipt_history[i]
       /\ \A i \in DOMAIN local_email_logs :
             /\ i \in DOMAIN local_email_logs'
             /\ local_email_logs'[i] = local_email_logs[i]
       /\ \A i, j \in DOMAIN receipt_history' :
             receipt_history'[i].receipt_id = receipt_history'[j].receipt_id => i = j]_vars

\* C25: cleanup_old_data is never partial: when it returns, True or False,
\* then for every agent and day either the usage_records rows and the
\* agent_stats row of that day are both as before, or none of them is left.
C25_CleanupNeverPartial ==
    [][CleanupReturns =>
         \A key \in StatKeys :
            \/ /\ RowsOf(usage_records', key) = RowsOf(usage_records, key)
               /\ (key \in DOMAIN agent_stats') = (key \in DOMAIN agent_stats)
               /\ key \in DOMAIN agent_stats => agent_stats'[key] = agent_stats[key]
            \/ /\ RowsOf(usage_records', key) = <<>>
               /\ key \notin DOMAIN agent_stats']_vars

\* A call of cleanup_old_data failed after its DELETE statements ran, and a
\* day before the cutoff still has its usage_records rows and its agent_stats row
C25_Witness ==
    /\ maint.pc = "returned"
    /\ maint.op = "cleanup_old_data"
    /\ ~maint.ret
    /\ maint.stats
    /\ \E key \in StatKeys :
          /\ Older(key[2], maint.cutoff_date)
          /\ RowsOf(usage_records, key) # <<>>
          /\ key \in DOMAIN agent_stats

\* C26: cleanup_old_data(days_to_keep) deletes only data strictly older than
\* the cutoff day: when it returns True, every usage_records row and every
\* agent_stats row dated on or after the cutoff is unchanged, every older row
\* is gone, and every remaining day whose aggregate equalled the sum of its
\* events before the call still equals the sum of its remaining events.
C26_CleanupDeletesOnlyOlder ==
    [][(CleanupReturns /\ maint'.ret) =>
         /\ \A key \in StatKeys :
               IF key[2] >= maint.cutoff_date
               THEN /\ RowsOf(usage_records', key) = RowsOf(usage_records, key)
                    /\ (key \in DOMAIN agent_stats') = (key \in DOMAIN agent_stats)
                    /\ key \in DOMAIN agent_stats => agent_stats'[key] = agent_stats[key]
               ELSE /\ RowsOf(usage_records', key) = <<>>
                    /\ key \notin DOMAIN agent_stats'
         /\ \A key \in DOMAIN agent_stats' :
               (agent_stats[key].total_cost_usd = SumOf(RowsOf(usage_records, key), "cost_usd"))
                  => (agent_stats'[key].total_cost_usd
                         = SumOf(RowsOf(usage_records', key), "cost_usd"))]_vars

\* A call of cleanup_old_data returned True and deleted a row recorded before
\* the cutoff, and a later row remains, whose day has the aggregate of its events
C26_Witness ==
    /\ maint.pc = "returned"
    /\ maint.op = "cleanup_old_data"
    /\ maint.ret
    /\ call["c1"].pc = "returned"
    /\ call["c1"].row > Len(usage_records)
    /\ usage_records # <<>>
    /\ \A i \in DOMAIN usage_records : usage_records[i].date >= maint.cutoff_date
    /\ \E key \in DOMAIN agent_stats :
          agent_stats[key].total_cost_usd = SumOf(RowsOf(usage_records, key), "cost_usd")

----------------------------------------------------------------------------
\* storage/database.py: get_usage_data, in its three SELECT statements.

MaxUsageDays == 2
MaxEvents == 2

\* strftime("%Y-%m-%d") of an instant, and date(timestamp) of a stored one
DateOf(t) == t \div DayLen

\* The empty dict
EmptyDict == << >>

\* The WHERE clause of the three statements:
\* agent_name = ? AND date(timestamp) >= ?
Selected(agent_name, start_date) ==
    SelectSeq(usage_records,
              LAMBDA r : r.agent_name = agent_name /\ r.date >= start_date)

\* SELECT model, COUNT(*) ... GROUP BY model, as a dict
ModelCounts(rows) ==
    [m \in {rows[i].model : i \in DOMAIN rows} |->
        Len(SelectSeq(rows, LAMBDA r : r.model = m))]

\* SELECT date(timestamp), COUNT(*), SUM(..) ... GROUP BY date(timestamp)
\* ORDER BY date(timestamp): one entry per date that has rows
RECURSIVE DailyRows(_, _)
DailyRows(rows, dates) ==
    IF dates = {}
    THEN <<>>
    ELSE LET d == CHOOSE x \in dates : \A y \in dates : x <= y
             ofDay == SelectSeq(rows, LAMBDA r : r.date = d)
         IN  <<[date |-> d, requests |-> Len(ofDay),
                total_tokens |-> SumOf(ofDay, "total_tokens"),
                cost_usd |-> SumOf(ofDay, "cost_usd")]>>
             \o DailyRows(rows, dates \ {d})

\* The reader of get_usage_data before its first call
NoReader(agent_name, days_back) ==
    [pc |-> "idle", agent_name |-> agent_name, days_back |-> days_back,
     out |-> <<>>, breakdown |-> None]

\* get_usage_data, lines 135-139: start_date and the connection
ReadBegin ==
    /\ probe.pc = "idle"
    /\ Len(probe.out) < 2
    /\ probe' = [pc |-> "totals", agent_name |-> probe.agent_name,
                 days_back |-> probe.days_back, out |-> probe.out,
                 breakdown |-> probe.breakdown,
                 start_date |-> DateOf(now - probe.days_back * DayLen)]

\* Lines 141-153: the SELECT of the totals
ReadTotals ==
    /\ probe.pc = "totals"
    /\ LET rows == Selected(probe.agent_name, probe.start_date)
       IN  probe' = [probe EXCEPT !.pc = "models"] @@
                    ("totals" :> [total_requests |-> Len(rows),
                                  total_tokens |-> SumOf(rows, "total_tokens"),
                                  total_cost_usd |-> SumOf(rows, "cost_usd")])

\* Lines 155-163: the SELECT of the model breakdown
ReadModels ==
    /\ probe.pc = "models"
    /\ probe' = [probe EXCEPT !.pc = "daily"] @@
                ("models_used" :> ModelCounts(Selected(probe.agent_name, probe.start_date)))

\* Lines 165-199: the SELECT of the daily breakdown and the returned dict
ReadDaily ==
    /\ probe.pc = "daily"
    /\ LET rows == Selected(probe.agent_name, probe.start_date)
           usage_data ==
               [period_start |-> probe.start_date,
                period_end |-> DateOf(now),
                total_requests |-> probe.totals.total_requests,
                total_tokens |-> probe.totals.total_tokens,
                total_cost_usd |-> probe.totals.total_cost_usd,
                models_used |-> probe.models_used,
                daily_breakdown |->
                    DailyRows(rows, {rows[i].date : i \in DOMAIN rows})]
       IN  probe' = [NoReader(probe.agent_name, probe.days_back)
                        EXCEPT !.out = Append(probe.out, usage_data),
                               !.breakdown = probe.breakdown]

\* Lines 201-203: every exception is logged and the empty dict is returned
ReadFail ==
    /\ probe.pc \in {"totals", "models", "daily"}
    /\ probe' = [NoReader(probe.agent_name, probe.days_back)
                    EXCEPT !.out = Append(probe.out, EmptyDict),
                           !.breakdown = probe.breakdown]

----------------------------------------------------------------------------
\* receipts/generator.py: _format_cost_breakdown.  A cost is a fraction
\* [num, den], the float total_cost_usd * (requests / total_requests) without
\* its rounding.

\* sorted(breakdown, key = cost, reverse = True)
RECURSIVE SortedByCost(_)
SortedByCost(entries) ==
    IF entries = {}
    THEN <<>>
    ELSE LET e == CHOOSE x \in entries : \A y \in entries : x.cost.num >= y.cost.num
         IN  <<e>> \o SortedByCost(entries \ {e})

\* _format_cost_breakdown: requests / usage_data.total_requests raises
\* ZeroDivisionError for the first model when total_requests is 0.
_format_cost_breakdown(usage_data) ==
    IF DOMAIN usage_data.models_used # {} /\ usage_data.total_requests = 0
    THEN [raised |-> TRUE, entries |-> <<>>]
    ELSE [raised |-> FALSE,
          entries |-> SortedByCost(
              {[model |-> m, requests |-> usage_data.models_used[m],
                cost |-> [num |-> usage_data.total_cost_usd * usage_data.models_used[m],
                          den |-> usage_data.total_requests]] :
               m \in DOMAIN usage_data.models_used})]

\* generate_receipt, line 31, on the last summary get_usage_data returned;
\* breakdown holds the result and the position of the summary in out.
FormatCostBreakdown ==
    /\ probe.pc = "idle"
    /\ probe.out # <<>>
    /\ probe.out[Len(probe.out)] # EmptyDict
    /\ probe.breakdown = None
    /\ probe' = [probe EXCEPT
                   !.breakdown = <<_format_cost_breakdown(probe.out[Len(probe.out)]),
                                   Len(probe.out)>>]

\* The usage tables get_usage_data is called on: up to MaxEvents events in
\* the order of their timestamps, none later than t
UsageTables(t) ==
    LET events == {[agent_name |-> in.agent_name, timestamp |-> ts, date |-> DateOf(ts),
                    model |-> in.model, total_tokens |-> in.tokens,
                    cost_usd |-> in.cost_usd] : in \in UsageInputs, ts \in 0..t}
    IN  {rows \in UNION {[1..n -> events] : n \in 0..MaxEvents} :
            \A i, j \in DOMAIN rows : i < j => rows[i].timestamp <= rows[j].timestamp}

\* The agent_stats rows record_usage wrote for a table when every write succeeded
StatsOf(rows) ==
    [key \in {<<rows[i].agent_name, rows[i].date>> : i \in DOMAIN rows} |->
        LET ofKey == SelectSeq(rows, LAMBDA r : <<r.agent_name, r.date>> = key)
        IN  [total_requests |-> Len(ofKey),
             total_tokens |-> SumOf(ofKey, "total_tokens"),
             total_cost_usd |-> SumOf(ofKey, "cost_usd"),
             models_used |-> ModelCounts(ofKey)]]

\* A stored table, a time of day MaxUsageDays days after slot 0, and the
\* arguments of get_usage_data
InitUsage ==
    /\ now \in (MaxUsageDays * DayLen)..(MaxUsageDays * DayLen + DayLen - 1)
    /\ config = [agents |-> [a \in {"a1"} |-> AgentConfig("daily", "openai", "sk")],
                 supabase |-> TRUE]
    /\ running = FALSE
    /\ thread = NoThread
    /\ thread2 = NoThread
    /\ jobs = <<>>
    /\ run = [r \in Runners |-> Idle]
    /\ result = [r \in Runners |-> NoResult]
    /\ email_logs = [a \in AgentNames |-> <<>>]
    /\ delivered = [a \in AgentNames |-> <<>>]
    /\ calls = [manual |-> 0, cli |-> 0]
    /\ usage_records \in UsageTables(now)
    /\ agent_stats = StatsOf(usage_records)
    /\ today = DateOf(now)
    /\ call = [c \in Callers |-> NoCall]
    /\ receipt_history = <<>>
    /\ local_email_logs = <<>>
    /\ maint = NoCall
    /\ probe \in {NoReader(a, d) : a \in AgentNames, d \in 1..MaxUsageDays}

\* get_usage_data and the cost breakdown of its summary, on a table nobody writes
NextUsage ==
    \/ ReadBegin /\ UNCHANGED <<schedVars, dbVars, histVars>>
    \/ ReadTotals /\ UNCHANGED <<schedVars, dbVars, histVars>>
    \/ ReadModels /\ UNCHANGED <<schedVars, dbVars, histVars>>
    \/ ReadDaily /\ UNCHANGED <<schedVars, dbVars, histVars>>
    \/ ReadFail /\ UNCHANGED <<schedVars, dbVars, histVars>>
    \/ FormatCostBreakdown /\ UNCHANGED <<schedVars, dbVars, histVars>>

SpecUsage == InitUsage /\ [][NextUsage]_vars

\* get_usage_data while record_usage is called
InitUsageRace == QuietInit /\ DbInit /\ probe = NoReader("a1", 1)

NextUsageRace ==
    \/ \E in \in UsageInputs :
          Insert("c1", in, TRUE) /\ UNCHANGED <<schedVars, histVars, probe>>
    \/ StatsRead("c1") /\ UNCHANGED <<schedVars, histVars, probe>>
    \/ StatsWrite("c1", TRUE) /\ UNCHANGED <<schedVars, histVars, probe>>
    \/ ReadBegin /\ UNCHANGED <<schedVars, dbVars, histVars>>
    \/ ReadTotals /\ UNCHANGED <<schedVars, dbVars, histVars>>
    \/ ReadModels /\ UNCHANGED <<schedVars, dbVars, histVars>>
    \/ ReadDaily /\ UNCHANGED <<schedVars, dbVars, histVars>>
    \/ ReadFail /\ UNCHANGED <<schedVars, dbVars, histVars>>
    \/ FormatCostBreakdown /\ UNCHANGED <<schedVars, dbVars, histVars>>

SpecUsageRace == InitUsageRace /\ [][NextUsageRace]_vars

----------------------------------------------------------------------------
\* Properties of the summaries.

\* The summaries get_usage_data returned
Summaries == {probe.out[i] : i \in DOMAIN probe.out} \ {EmptyDict}

\* C22: get_usage_data returns a contiguous daily series: one entry per
\* calendar day of the range, from period_start to period_end, with a
\* zero-valued entry for a day without events; an agent with no events gets
\* total cost 0 and a zero-valued entry for every day.
C22_ContiguousDailySeries ==
    \A s \in Summaries :
       /\ Len(s.daily_breakdown) = s.period_end - s.period_start + 1
       /\ \A k \in DOMAIN s.daily_breakdown :
             s.daily_breakdown[k].date = s.period_start + k - 1

\* The events of the half-open range [t - days_back days, t) of an agent
EventsInRange(agent_name, days_back, t) ==
    SelectSeq(usage_records,
              LAMBDA r : /\ r.agent_name = agent_name
                         /\ r.timestamp >= t - days_back * DayLen
                         /\ r.timestamp < t)

\* C23: get_usage_data(agent, days_back) aggregates exactly the events of
\* that agent whose timestamp lies in [now - days_back days, now): no event
\* of another agent, none before the start instant, none at or after the end.
C23_AggregatesHalfOpenRange ==
    \A s \in Summaries :
       LET events == EventsInRange(probe.agent_name, probe.days_back, now)
       IN  /\ s.total_requests = Len(events)
           /\ s.total_tokens = SumOf(events, "total_tokens")
           /\ s.total_cost_usd = SumOf(events, "cost_usd")

\* C27: in the cost breakdown of a summary the cost of each model is
\* proportional to the model's share of the period's tokens:
\* cost(model) = total_cost * tokens(model) / total_tokens.
C27_CostProportionalToTokens ==
    probe.breakdown # None =>
       LET s == probe.out[probe.breakdown[2]]
           rows == Selected(probe.agent_name, s.period_start)
           b == probe.breakdown[1]
       IN  /\ ~b.raised
           /\ \A k \in DOMAIN b.entries :
                 LET e == b.entries[k]
                     tokens == SumOf(SelectSeq(rows, LAMBDA r : r.model = e.model),
                                     "total_tokens")
                 IN  e.cost.num * s.total_tokens
                        = s.total_cost_usd * tokens * e.cost.den

\* C28: for a summary whose period total is zero the breakdown computation
\* never divides by zero, the breakdown is empty and the cost is zero,
\* whatever models_used the summary carries.
C28_ZeroTotalGivesEmptyBreakdown ==
    (probe.breakdown # None /\ probe.out[probe.breakdown[2]].total_requests = 0) =>
       /\ ~probe.breakdown[1].raised
       /\ probe.breakdown[1].entries = <<>>
       /\ probe.out[probe.breakdown[2]].total_cost_usd = 0

----------------------------------------------------------------------------
\* ai_providers/openai_provider.py: get_usage_data and _simulate_usage_data.
\* Money is counted in units of 10^-7 dollars.

MaxHigh == 2

\* random.randint(lo, hi), by its two extremes
RandInt(lo, hi) == {lo, hi}

\* MODEL_PRICING, per token, of the three models of the simulation
MODEL_PRICING ==
    [m \in {"gpt-3.5-turbo", "gpt-4", "text-embedding-ada-002"} |->
        CASE m = "gpt-4" -> [prompt |-> 300, completion |-> 600]
          [] m = "gpt-3.5-turbo" -> [prompt |-> 15, completion |-> 20]
          [] OTHER -> [prompt |-> 1, completion |-> 0]]

\* calculate_cost
calculate_cost(model, prompt_tokens, completion_tokens) ==
    prompt_tokens * MODEL_PRICING[model].prompt
       + completion_tokens * MODEL_PRICING[model].completion

\* round(x, 4)
Round4(x) == ((x + 500) \div 1000) * 1000

\* max(1, n)
Max1(n) == IF n < 1 THEN 1 ELSE n

\* All draws of one call of _simulate_usage_data for a period of n days
AllDraws(n) ==
    [total_requests : RandInt(50, 300),
     models_used : [{"gpt-3.5-turbo"} -> RandInt(20, 150)]
                       \X [{"gpt-4"} -> RandInt(10, 50)]
                       \X [{"text-embedding-ada-002"} -> RandInt(5, 30)],
     daily : [1..n -> [requests : RandInt(5, 20),
                       prompt_tokens : RandInt(1000, 5000),
                       completion_tokens : RandInt(500, 2500)]]]

\* How many draws of rnd are the upper extreme
Highs(rnd) ==
    LET one(b) == IF b THEN 1 ELSE 0
    IN  one(rnd.total_requests = 300)
        + one(rnd.models_used[1]["gpt-3.5-turbo"] = 150)
        + one(rnd.models_used[2]["gpt-4"] = 50)
        + one(rnd.models_used[3]["text-embedding-ada-002"] = 30)
        + SumOf([k \in DOMAIN rnd.daily |->
                   [h |-> one(rnd.daily[k].requests = 20)
                          + one(rnd.daily[k].prompt_tokens = 5000)
                          + one(rnd.daily[k].completion_tokens = 2500)]], "h")

\* The draws of the model: those with at most MaxHigh upper extremes
Draws(n) == {rnd \in AllDraws(n) : Highs(rnd) <= MaxHigh}

\* The cost of one day of the simulation, lines 221-229
DailyCost(models_used, total_requests, day) ==
    LET costOf(m) ==
            LET model_requests == Max1((models_used[m] * day.requests) \div total_requests)
            IN  calculate_cost(m,
                    (day.prompt_tokens * model_requests) \div day.requests,
                    (day.completion_tokens * model_requests) \div day.requests)
    IN  costOf("gpt-3.5-turbo") + costOf("gpt-4") + costOf("text-embedding-ada-002")

\* _simulate_usage_data(start_date, end_date) for the draws rnd
_simulate_usage_data(start_date, end_date, rnd) ==
    LET models_used == rnd.models_used[1] @@ rnd.models_used[2] @@ rnd.models_used[3]
        n == Len(rnd.daily)
        cost(k) == DailyCost(models_used, rnd.total_requests, rnd.daily[k])
        daily_breakdown ==
            [k \in 1..n |->
                [date |-> DateOf(start_date) + k - 1,
                 requests |-> rnd.daily[k].requests,
                 prompt_tokens |-> rnd.daily[k].prompt_tokens,
                 completion_tokens |-> rnd.daily[k].completion_tokens,
                 cost_usd |-> Round4(cost(k))]]
        total_prompt_tokens == SumOf([k \in 1..n |-> rnd.daily[k]], "prompt_tokens")
        total_completion_tokens == SumOf([k \in 1..n |-> rnd.daily[k]], "completion_tokens")
        total_cost == SumOf([k \in 1..n |-> [c |-> cost(k)]], "c")
    IN  [period_start |-> IsoFormat(start_date),
         period_end |-> IsoFormat(end_date),
         total_requests |-> rnd.total_requests,
         total_prompt_tokens |-> total_prompt_tokens,
         total_completion_tokens |-> total_completion_tokens,
         total_tokens |-> total_prompt_tokens + total_completion_tokens,
         total_cost_usd |-> Round4(total_cost),
         models_used |-> models_used,
         daily_breakdown |-> daily_breakdown]

\* The caller of OpenAIProvider.get_usage_data before its first call
NoFetch(days_back) == [days_back |-> days_back, out |-> <<>>]

\* OpenAIProvider.get_usage_data(days_back): the period ends now, and the
\* loop of the simulation runs once per day from start_date to end_date.
ProviderGetUsageData(rnd) ==
    /\ Len(probe.out) < 2
    /\ LET end_date == now
           start_date == end_date - probe.days_back * DayLen
       IN  /\ Len(rnd.daily) = TimedeltaDays(end_date - start_date) + 1
           /\ probe' = [probe EXCEPT
                          !.out = Append(@, _simulate_usage_data(start_date, end_date, rnd))]

\* The usage fetch of the dispatch of a daily agent, called twice at one instant
InitFetch == QuietInit /\ DbInit /\ probe = NoFetch(_get_days_back("daily"))

NextFetch ==
    \E rnd \in Draws(_get_days_back("daily") + 1) :
       ProviderGetUsageData(rnd) /\ UNCHANGED <<schedVars, dbVars, histVars>>

SpecFetch == InitFetch /\ [][NextFetch]_vars

\* C24: summarizing is deterministic and free of side effects: two summaries
\* of the same agent and period with no write between them are identical,
\* through LocalDatabase.get_usage_data and through
\* OpenAIProvider.get_usage_data, and no call changes a table or the config.
C24_SummaryDeterministic ==
    /\ Len(probe.out) = 2 => probe.out[1] = probe.out[2]
    /\ usage_records = <<>>
    /\ agent_stats = << >>
    /\ config.agents["a1"].last_receipt_sent = None

----------------------------------------------------------------------------
\* receipts/generator.py: _calculate_next_receipt_date, on a calendar.

\* The calendar day of slot 0: a Monday, the first day of a year that is not
\* a leap year and is followed by one
Epoch == [year |-> 2018, month |-> 1, day |-> 1]

DaysInMonth == <<31, 28, 31, 30, 31, 30, 31, 31, 30, 31, 30, 31>>
DaysInYear == SumOf([m \in 1..12 |-> [n |-> DaysInMonth[m]]], "n")

\* The date of the n-th day (from 0) of a year, counted on from month m
RECURSIVE DayOfYear(_, _, _)
DayOfYear(year, m, n) ==
    IF n < DaysInMonth[m]
    THEN [year |-> year, month |-> m, day |-> n + 1]
    ELSE DayOfYear(year, m + 1, n - DaysInMonth[m])

\* datetime.now(): the calendar date of an instant
DateAt(t) ==
    DayOfYear(Epoch.year + DateOf(t) \div DaysInYear, 1, DateOf(t) % DaysInYear)

\* now.weekday(): Monday is 0
Weekday(t) == DateOf(t) % 7

\* strftime("%B %d, %Y")
StrfTime(date) == <<date.month, date.day, date.year>>

\* A next-receipt date that stays in the year of the receipt
_calculate_next_receipt_date_sameyear(schedule, t) ==
    CASE schedule = "daily" -> StrfTime(DateAt(t + 1 * DayLen))
      [] schedule = "weekly" ->
            LET days_until_next_monday == 7 - Weekday(t)
            IN  StrfTime(DateAt(t + (IF days_until_next_monday = 7
                                     THEN 0 ELSE days_until_next_monday) * DayLen))
      [] OTHER ->
            IF DateAt(t).month = 12
            THEN StrfTime([year |-> DateAt(t).year, month |-> 1, day |-> 1])
            ELSE StrfTime([year |-> DateAt(t).year, month |-> DateAt(t).month + 1,
                           day |-> 1])

\* _calculate_next_receipt_date(schedule) at the instant t
_calculate_next_receipt_date(schedule, t) ==
    CASE schedule = "daily" -> StrfTime(DateAt(t + 1 * DayLen))
      [] schedule = "weekly" ->
            LET days_until_next_monday == 7 - Weekday(t)
            IN  StrfTime(DateAt(t + (IF days_until_next_monday = 7
                                     THEN 0 ELSE days_until_next_monday) * DayLen))
      [] OTHER ->
            IF DateAt(t).month = 12
            THEN StrfTime([year |-> DateAt(t).year + 1, month |-> 1, day |-> 1])
            ELSE StrfTime([year |-> DateAt(t).year, month |-> DateAt(t).month + 1,
                           day |-> 1])

\* The first slot of a calendar day of the year of the epoch
SlotOf(month, day) ==
    (SumOf([m \in 1..(month - 1) |-> [n |-> DaysInMonth[m]]], "n") + day - 1) * DayLen

\* An agent stamped on December 15, and a tick between December 1 and the
\* end of the following January
YearEndInit ==
    probe \in [schedule : Schedules,
               last_receipt_sent : {IsoFormat(SlotOf(12, 15) + s) : s \in 0..(DayLen - 1)},
               t : SlotOf(12, 1)..(SlotOf(12, 1) + 2 * MaxProbeDays * DayLen - 1),
               out : {None}]

\* A tick: the skip check of the agent, and the next-receipt date a receipt
\* generated at the tick shows
EvaluateYearEnd ==
    /\ probe.out = None
    /\ probe' = [probe EXCEPT
                   !.out = <<_should_skip_receipt(probe, probe.t),
                             _calculate_next_receipt_date(probe.schedule, probe.t)>>]

InitYearEnd == QuietInit /\ DbInit /\ YearEndInit

NextYearEnd == EvaluateYearEnd /\ UNCHANGED <<schedVars, dbVars, histVars>>

SpecYearEnd == InitYearEnd /\ [][NextYearEnd]_vars

----------------------------------------------------------------------------
\* TaskScheduler.reschedule_agent.

\* reschedule_agent(agent_name): schedule.clear(agent_name) removes the jobs
\* with the tag; an agent that is configured gets a new job, whether or not
\* the scheduler is running, and for a monthly agent schedule.every().month
\* raises AttributeError after the clear.
reschedule_agent(agent_name) ==
    /\ LET kept == SelectSeq(jobs, LAMBDA j : j.tag # agent_name)
           used == {kept[i].id : i \in DOMAIN kept}
                      \cup {thread.todo[i].id : i \in DOMAIN thread.todo}
                      \cup {thread2.todo[i].id : i \in DOMAIN thread2.todo}
       IN  jobs' =
              IF /\ agent_name \in DOMAIN config.agents
                 /\ config.agents[agent_name].schedule # "monthly"
              THEN Append(kept,
                     [id |-> NewId(used, 1), tag |-> agent_name,
                      unit |-> config.agents[agent_name].schedule,
                      next_run |-> NextRun(config.agents[agent_name].schedule, now)])
              ELSE kept
    /\ UNCHANGED <<now, config, running, thread, run, result, email_logs, delivered, calls>>

\* The scheduler process with start(), stop() and reschedule_agent() while
\* agents are removed: no crash, every send is delivered and every write
\* succeeds; start() is called again once the old thread has ended. The
\* clock stops after the first day.
NextRegistry ==
    \/ (thread.pc = "none" /\ Start) /\ SchedRest
    \/ RunPending /\ SchedRest
    \/ Sleep /\ SchedRest
    \/ \E a \in AgentNames : Begin("sched", a) /\ SchedRest
    \/ Send("sched", "ok") /\ SchedRest
    \/ StampLoad("sched") /\ SchedRest
    \/ StampSave("sched", TRUE) /\ SchedRest
    \/ Log("sched", TRUE) /\ SchedRest
    \/ Stop /\ SchedRest
    \/ ThreadExit /\ SchedRest
    \/ \E a \in AgentNames : reschedule_agent(a) /\ SchedRest
    \/ \E a \in AgentNames : RemoveAgent(a) /\ SchedRest
    \/ (now < DayLen /\ Advance) /\ SchedRest

\* Two daily agents, the second without an API key
InitRegistry ==
    /\ Init
    /\ DOMAIN config.agents = AgentNames
    /\ config.agents["a2"].schedule = "daily"
    /\ config.supabase

SpecRegistry == InitRegistry /\ [][NextRegistry]_vars

\* The jobs of the registry with a tag
JobsOf(registry, tag) == SelectSeq(registry, LAMBDA j : j.tag = tag)

\* C30: after any sequence of start(), stop() and reschedule_agent() the
\* registry holds at most one job per agent tag: start() never adds a second
\* job for an agent reschedule_agent registered, and reschedule_agent(a)
\* leaves the jobs of the other agents unchanged and leaves no job for a when
\* a is no longer configured.
C30_OneJobPerAgent ==
    [][/\ \A a \in AgentNames : Len(JobsOf(jobs', a)) <= 1
       /\ \A a \in AgentNames :
             reschedule_agent(a) =>
                /\ \A b \in AgentNames \ {a} : JobsOf(jobs', b) = JobsOf(jobs, b)
                /\ a \notin DOMAIN config.agents => JobsOf(jobs', a) = <<>>]_vars

----------------------------------------------------------------------------
\* start() after a stop() whose join timed out: a second scheduler thread.

\* TaskScheduler.start while the thread of an earlier start() is alive: the
\* flag is False after stop(), so start() sets it, registers the jobs and
\* starts another thread; start() does not look at scheduler_thread. The
\* join of stop() timed out: the thread is asleep or inside run_pending. The
\* model has room for one such thread.
Start2 ==
    /\ ~running
    /\ \/ thread.pc = "jobs"
       \/ thread.pc = "wait" /\ thread.wake_at > now
    /\ thread2.pc = "none"
    /\ running' = TRUE
    /\ LET set == _setup_schedules(config, now)
       IN  /\ jobs' = jobs \o set.jobs
           /\ thread2' = IF set.raised THEN thread2
                         ELSE [pc |-> "wait", wake_at |-> now, todo |-> <<>>]
    /\ UNCHANGED <<now, config, thread, run, result, email_logs, delivered, calls>>

\* One pass of the loop of _run_scheduler in the second thread
RunPending2 ==
    /\ thread2.pc = "wait"
    /\ thread2.wake_at <= now
    /\ running
    /\ thread2' = [thread2 EXCEPT !.pc = "jobs", !.todo = Runnable(now)]
    /\ UNCHANGED <<now, config, running, thread, jobs, run, result, email_logs,
                   delivered, calls>>

\* time.sleep(60) in the second thread
Sleep2 ==
    /\ thread2.pc = "jobs"
    /\ thread2.todo = <<>>
    /\ thread2' = [thread2 EXCEPT !.pc = "wait", !.wake_at = now + SleepLen]
    /\ UNCHANGED <<now, config, running, thread, jobs, run, result, email_logs,
                   delivered, calls>>

\* _run_scheduler, line 76, in the second thread
ThreadExit2 ==
    /\ thread2.pc = "wait"
    /\ thread2.wake_at <= now
    /\ ~running
    /\ thread2' = NoThread
    /\ UNCHANGED <<now, config, running, thread, jobs, run, result, email_logs,
                   delivered, calls>>

\* A step of _generate_receipt_for_agent in the second thread: when the call
\* has returned, run_pending goes on with the next job it collected
SecondThread(step) ==
    /\ step
    /\ thread2' = IF run'["sched2"].pc = "idle"
                  THEN [thread2 EXCEPT !.todo = Tail(@)]
                  ELSE thread2
    /\ UNCHANGED <<dbVars, histVars, probe>>

\* The second thread is as timely as the first
Timely2 ==
    /\ thread2.pc = "wait" => thread2.wake_at > now
    /\ thread2.pc = "jobs" => run["sched2"].pc = "send"

\* The scheduler process with stop() and start() at any time: no crash,
\* every send is delivered and every write succeeds.
NextRestart ==
    \/ (thread.pc = "none" /\ Start) /\ SchedRest
    \/ Start2 /\ UNCHANGED <<dbVars, histVars, probe>>
    \/ Stop /\ SchedRest
    \/ RunPending /\ SchedRest
    \/ Sleep /\ SchedRest
    \/ ThreadExit /\ SchedRest
    \/ \E a \in AgentNames : Begin("sched", a) /\ SchedRest
    \/ Send("sched", "ok") /\ SchedRest
    \/ StampLoad("sched") /\ SchedRest
    \/ StampSave("sched", TRUE) /\ SchedRest
    \/ Log("sched", TRUE) /\ SchedRest
    \/ RunPending2 /\ UNCHANGED <<dbVars, histVars, probe>>
    \/ Sleep2 /\ UNCHANGED <<dbVars, histVars, probe>>
    \/ ThreadExit2 /\ UNCHANGED <<dbVars, histVars, probe>>
    \/ \E a \in AgentNames : SecondThread(Begin("sched2", a))
    \/ SecondThread(Send("sched2", "ok"))
    \/ SecondThread(StampLoad("sched2"))
    \/ SecondThread(StampSave("sched2", TRUE))
    \/ SecondThread(Log("sched2", TRUE))
    \/ (Timely2 /\ Advance) /\ SchedRest

\* One daily agent
InitRestart == QuietInit /\ DbInit /\ probe = NoProbe

SpecRestart == InitRestart /\ [][NextRestart]_vars

\* C31: at most one scheduler loop thread is active: after any sequence of
\* start() and stop(), also a start() shortly after a stop() whose join
\* timed out, two threads never both execute run_pending for the same jobs.
C31_OneLoopThread ==
    ~(/\ thread.pc = "jobs"
      /\ thread2.pc = "jobs"
      /\ \E i \in DOMAIN thread.todo, j \in DOMAIN thread2.todo :
            thread.todo[i].id = thread2.todo[j].id)

----------------------------------------------------------------------------
\* ConfigManager.add_agent called with a name the file already holds (the
\* method itself has no existence test; the test of cli.add_agent runs before
\* the key is verified, so a second add of the same name can pass it): the
\* entry is replaced by a fresh AgentConfig, whose last_receipt_sent is unset.
AddExistingAgent(name) ==
    /\ name \in DOMAIN config.agents
    /\ config' = add_agent(config, name, config.agents[name].schedule, "openai", "sk")
    /\ UNCHANGED <<now, running, thread, jobs, run, result, email_logs, delivered, calls>>

\* The scheduler process of SpecConfig, with add_agent also on existing names
NextStamps ==
    \/ NextConfig
    \/ \E a \in AgentNames : AddExistingAgent(a) /\ SchedRest

SpecStamps == Init /\ [][NextStamps]_vars

\* C32: while an agent stays registered, its last_receipt_sent is never
\* cleared and never moves backwards, whatever commits and add_agent calls
\* interleave.
C32_StampMonotone ==
    [][\A a \in AgentNames :
          (/\ a \in DOMAIN config.agents
           /\ a \in DOMAIN config'.agents
           /\ config.agents[a].last_receipt_sent # None)
          => /\ config'.agents[a].last_receipt_sent # None
             /\ FromIsoFormat(config'.agents[a].last_receipt_sent)
                  >= FromIsoFormat(config.agents[a].last_receipt_sent)]_vars

----------------------------------------------------------------------------
\* The exits of _generate_receipt_for_agent that do not follow a send which
\* returned True.

\* The callers of the dispatch in this process: the scheduler thread and
\* generate_receipt_now
Dispatchers == {"sched", "manual"}

\* The scheduler thread and a manual call, with every answer of the mail
\* service, exceptions, and agents removed while the scheduler runs, over the
\* first day; the writes of the config file and of the log succeed.
NextExits ==
    \/ Start /\ SchedRest
    \/ RunPending /\ SchedRest
    \/ Sleep /\ SchedRest
    \/ \E r \in Dispatchers, a \in AgentNames : Begin(r, a) /\ SchedRest
    \/ \E a \in AgentNames : Raise("sched", a) /\ SchedRest
    \/ \E r \in Dispatchers, o \in Outcomes : Send(r, o) /\ SchedRest
    \/ \E r \in Dispatchers : StampLoad(r) /\ SchedRest
    \/ \E r \in Dispatchers : StampSave(r, TRUE) /\ SchedRest
    \/ \E r \in Dispatchers : Log(r, TRUE) /\ SchedRest
    \/ \E a \in AgentNames : RemoveAgent(a) /\ SchedRest
    \/ (now < DayLen /\ Advance) /\ SchedRest

SpecExits == Init /\ [][NextExits]_vars

\* The call of runner r returns in this step
ReturnStep(r) ==
    /\ run'[r].pc = "idle"
    /\ \/ run[r].pc # "idle"
       \/ r = "sched" /\ thread.pc = "jobs" /\ Len(thread'.todo) < Len(thread.todo)
       \/ r = "manual" /\ calls'.manual > calls.manual

\* The exits before the send step
EarlyKinds ==
    {"not_found", "skipped", "no_supabase", "no_api_key", "unsupported_provider",
     "exception"}

\* C33: a run that ends without a send that returned True leaves the config
\* file as it is in each of its steps, reaches the stamp in none of them, and
\* on the exits before the send step no mail is delivered and no row logged.
C33_FailedRunChangesNothing ==
    [][\A r \in Dispatchers :
          /\ (ReturnStep(r) /\ result'[r].kind \in EarlyKinds)
             => /\ config' = config
                /\ delivered' = delivered
                /\ email_logs' = email_logs
          /\ (ReturnStep(r) /\ result'[r].kind = "send_failed")
             => /\ config' = config
                /\ ~result'[r].stamped
          /\ (run[r].pc = "send" /\ run'[r].pc # "send" /\ ~run'[r].success)
             => /\ config' = config
                /\ run'[r].pc = "log"
          /\ run'[r].pc \in {"stamp_load", "stamp_save"} => run'[r].success]_vars

\* A scheduled run ended with a send that returned False, and its agent is
\* still configured and still has no last_receipt_sent.
C33_Witness ==
    /\ result["sched"].kind = "send_failed"
    /\ run["sched"].pc = "idle"
    /\ result["sched"].agent \in DOMAIN config.agents
    /\ config.agents[result["sched"].agent].last_receipt_sent = None
    /\ delivered[result["sched"].agent] = <<>>

----------------------------------------------------------------------------
\* C34: the agent_stats row a call of record_usage is about to increment has
\* the date of the timestamp stored on the usage_records row the call
\* inserted, also when midnight passes between the insert and the update.
C34_CreditsDayOfEvent ==
    \A c \in Callers :
       call[c].pc = "stats_write"
       => call[c].key[2] = usage_records[call[c].row].date

----------------------------------------------------------------------------
\* database.py, get_agent_summary: the sums over the agent_stats rows of the
\* agent with date >= today - days (0 where SUM is NULL).
get_agent_summary(agent_name, days) ==
    LET start_date == today - days
        keys == {k \in DOMAIN agent_stats : k[1] = agent_name /\ k[2] >= start_date}
        RECURSIVE Sum(_, _)
        Sum(ks, field) ==
            IF ks = {} THEN 0
            ELSE LET k == CHOOSE x \in ks : TRUE
                 IN  agent_stats[k][field] + Sum(ks \ {k}, field)
    IN  [total_requests |-> Sum(keys, "total_requests"),
         total_tokens |-> Sum(keys, "total_tokens"),
         total_cost_usd |-> Sum(keys, "total_cost_usd"),
         active_days |-> Cardinality(keys)]

\* The totals get_usage_data returns when its three statements see one state
\* of usage_records (lines 134-153 and 189-195)
UsageTotals(agent_name, days_back) ==
    LET rows == Selected(agent_name, today - days_back)
    IN  [total_requests |-> Len(rows),
         total_tokens |-> SumOf(rows, "total_tokens"),
         total_cost_usd |-> SumOf(rows, "cost_usd")]

\* C35: once the calls of record_usage and cleanup_old_data have returned,
\* get_agent_summary(agent, d) and get_usage_data(agent, d) report the same
\* requests, tokens and cost, for every agent and every d.
C35_ReadPathsAgree ==
    (Quiet /\ \A c \in Callers : ~InCall(c))
    => \A a \in AgentNames, d \in 0..(MaxDbDays + 1) :
          LET s == get_agent_summary(a, d)
              u == UsageTotals(a, d)
          IN  /\ s.total_requests = u.total_requests
              /\ s.total_tokens = u.total_tokens
              /\ s.total_cost_usd = u.total_cost_usd

----------------------------------------------------------------------------
\* The sum of the values of a dict of counts
RECURSIVE SumCounts(_)
SumCounts(d) ==
    IF DOMAIN d = {} THEN 0
    ELSE LET m == CHOOSE x \in DOMAIN d : TRUE
         IN  d[m] + SumCounts([k \in DOMAIN d \ {m} |-> d[k]])

\* C36: in every UsageData the provider returns, total_requests is the sum of
\* the models_used counts and the sum of the daily requests, and total_tokens
\* is total_prompt_tokens + total_completion_tokens and the sum of the daily
\* token counts.
C36_SummaryConsistent ==
    \A i \in DOMAIN probe.out :
       LET s == probe.out[i]
       IN  /\ s.total_requests = SumCounts(s.models_used)
           /\ s.total_requests = SumOf(s.daily_breakdown, "requests")
           /\ s.total_tokens = s.total_prompt_tokens + s.total_completion_tokens
           /\ s.total_tokens = SumOf(s.daily_breakdown, "prompt_tokens")
                                 + SumOf(s.daily_breakdown, "completion_tokens")

----------------------------------------------------------------------------
\* receipts/generator.py: the period and the next-receipt date a receipt
\* prints, next to the window its usage data was fetched for.

\* _get_period_info(schedule) at the instant t: the calendar day, week
\* (Monday to Sunday) or month that holds t, as two printed dates
_get_period_info(schedule, t) ==
    CASE schedule = "daily" ->
            LET start == DateOf(t) * DayLen
                end == start + 1 * DayLen - 1
            IN  [start |-> StrfTime(DateAt(start)), end |-> StrfTime(DateAt(end))]
      [] schedule = "weekly" ->
            LET days_since_monday == Weekday(t)
                start == DateOf(t) * DayLen - days_since_monday * DayLen
                end == start + 7 * DayLen - 1
            IN  [start |-> StrfTime(DateAt(start)), end |-> StrfTime(DateAt(end))]
      [] OTHER ->
            LET start == [DateAt(t) EXCEPT !.day = 1]
                end == [start EXCEPT !.day = DaysInMonth[start.month]]
            IN  [start |-> StrfTime(start), end |-> StrfTime(end)]

\* The window of OpenAIProvider.get_usage_data(_get_days_back(schedule)) at
\* the instant t, as the printed dates of its two ends
LookbackWindow(schedule, t) ==
    LET end_date == t
        start_date == end_date - _get_days_back(schedule) * DayLen
    IN  [start |-> StrfTime(DateAt(start_date)), end |-> StrfTime(DateAt(end_date))]

\* A receipt of any cadence generated at an instant between December 1 and
\* the end of the following January
ReceiptInit ==
    probe \in [schedule : Schedules,
               t : SlotOf(12, 1)..(SlotOf(12, 1) + 2 * MaxProbeDays * DayLen - 1),
               out : {None}]

\* generate_receipt, lines 22-36: the period, the date of generation and the
\* next-receipt date of the receipt, with the window of its usage data
GenerateReceipt ==
    /\ probe.out = None
    /\ probe' = [probe EXCEPT
                   !.out = [period |-> _get_period_info(probe.schedule, probe.t),
                            window |-> LookbackWindow(probe.schedule, probe.t),
                            date_generated |-> StrfTime(DateAt(probe.t)),
                            next_receipt |->
                               _calculate_next_receipt_date(probe.schedule, probe.t)]]

InitReceipt == QuietInit /\ DbInit /\ ReceiptInit

NextReceipt == GenerateReceipt /\ UNCHANGED <<schedVars, dbVars, histVars>>

SpecReceipt == InitReceipt /\ [][NextReceipt]_vars

\* C37: the start and end days of the billing period a receipt prints are the
\* start and end days of the window (now - days_back, now) its usage data
\* was fetched for, for every cadence and generation time.
C37_PeriodIsLookbackWindow ==
    probe.out # None
    => /\ probe.out.period.start = probe.out.window.start
       /\ probe.out.period.end = probe.out.window.end

\* A printed date is later than another
LaterDate(a, b) ==
    \/ a[3] > b[3]
    \/ a[3] = b[3] /\ a[1] > b[1]
    \/ a[3] = b[3] /\ a[1] = b[1] /\ a[2] > b[2]

\* The day of the first trigger after t of the job _setup_schedules registers:
\* every().day.at("09:00") and every().monday.at("09:00")
NextTriggerDay(schedule, t) ==
    LET after0900 == t % DayLen >= At0900
    IN  IF schedule = "daily"
        THEN DateOf(t) + (IF after0900 THEN 1 ELSE 0)
        ELSE IF Weekday(t) = 0 /\ ~after0900
             THEN DateOf(t)
             ELSE DateOf(t) + 7 - Weekday(t)

\* C38: the next-receipt date a receipt prints is later than its date of
\* generation, for every cadence; and for a daily or weekly receipt generated
\* by its scheduled run at 09:00 it is the day of the next trigger of the
\* agent's job (the next day, the following Monday).
C38_NextReceiptIsNextTrigger ==
    probe.out # None
    => /\ LaterDate(probe.out.next_receipt, probe.out.date_generated)
       /\ (probe.schedule # "monthly" /\ probe.t % DayLen = At0900)
          => probe.out.next_receipt
                = StrfTime(DateAt(NextTriggerDay(probe.schedule, probe.t) * DayLen))

----------------------------------------------------------------------------
\* The end of the scheduler thread after stop().

\* _run_scheduler, lines 80-82: run_pending raised; the except clause logs the
\* error and sleeps, and the loop goes back to its test of the flag. The jobs
\* collected for the pass are dropped.
LoopExcept ==
    /\ thread.pc = "jobs"
    /\ run["sched"].pc = "idle"
    /\ thread' = [thread EXCEPT !.pc = "wait", !.wake_at = now + SleepLen, !.todo = <<>>]
    /\ UNCHANGED <<now, config, running, jobs, run, result, email_logs, delivered, calls>>

\* The slots the thread may need after stop() to reach its next test of the
\* flag: the sends of the jobs of its pass and one sleep
StopSlack == Len(Agents) * MaxSendSlots + SleepLen

\* The steps of the scheduler thread and of a dispatch it runs
ThreadStep ==
    \/ RunPending
    \/ Sleep
    \/ \E a \in AgentNames : Begin("sched", a)
    \/ Send("sched", "ok")
    \/ StampLoad("sched")
    \/ StampSave("sched", TRUE)
    \/ Log("sched", TRUE)
    \/ ThreadExit

\* The scheduler process with stop(), exceptions in a dispatch and in
\* run_pending; stop() is called while the clock of the model leaves the
\* thread the time to reach its next test of the flag.
NextStopFair ==
    \/ (thread.pc = "none" /\ Start) /\ SchedRest
    \/ ThreadStep /\ SchedRest
    \/ \E a \in AgentNames : Raise("sched", a) /\ SchedRest
    \/ LoopExcept /\ SchedRest
    \/ (now + StopSlack <= MaxTime /\ Stop) /\ SchedRest
    \/ Advance /\ SchedRest

\* The thread is scheduled and time passes: a step of the thread that stays
\* possible is taken, and so is the passing of a slot.
SpecStopFair ==
    /\ Init
    /\ [][NextStopFair]_vars
    /\ WF_vars(ThreadStep /\ SchedRest)
    /\ WF_vars(Advance /\ SchedRest)

\* C39: once stop() has been called, the scheduler thread ends, unless start()
\* is called again first; also when a dispatch or run_pending raised.
C39_ThreadTerminates ==
    (~running /\ thread.pc # "none") ~> (running \/ thread.pc = "none")

\* stop() was called after a tick whose dispatch raised, and the thread has ended
C39_Witness ==
    /\ ~running
    /\ thread.pc = "none"
    /\ result["sched"].kind = "exception"
    /\ now > 0

====
